---- MODULE Spec2Model ----
(***************************************************************************)
(* Verification model of three parts of the sneller query engine:          *)
(*   - vm/unpivot.go: randomTreeUnifier, the lock-free insert-only tree    *)
(*   - plan (lowering): walker.put / input.merge / mergeFilterHint /       *)
(*     walker.finish, the input deduplication of the plan lowering         *)
(*   - plan/pir: fixedPointOptimizer, the fixed-point rule engine          *)
(***************************************************************************)
EXTENDS Integers, Sequences, FiniteSets, TLC

(***************************************************************************)
(* Bounds                                                                  *)
(***************************************************************************)
NThreads == 2
MaxCalls == 3
MaxLeaves == 3
MaxChain == 2
MaxRules == 3
PassCap == 3
MaxPath == 2
MaxNest == 2

VARIABLES
    \* ---- randomTreeUnifier (vm/unpivot.go)
    hashOf,     \* the hash function aes.HashSlice(&aes.Volatile, .) of this process
    root,       \* randomTreeUnifier.root: 0 (nil) or a node id
    nodes,      \* the allocated randomTreeUnifierNode objects, by node id
    thr,        \* per thread: the position and the locals of its unify call
    rets,       \* history: per string, how many unify calls returned true / false
    \* ---- plan lowering: walker (input deduplication) and toTree
    inputs,     \* walker.inputs: the accumulating input table
    latest,     \* walker.latest: the slot most recently observed (-1 if none)
    leaves,     \* the Leaf ops built so far: the IterTable, its slot, the Filter op above it
    attempts,   \* the merge attempts of the most recent walker.put
    pcPlan,     \* position of toTree: "walk", "finish", "done"
    fi,         \* loop index of walker.finish
    outInputs,  \* the local 'inputs' slice walker.finish fills
    statLog,    \* the calls made to the environment's Stat: slot, hints, outcome
    cancelReq,  \* whether the caller has asked for the planning to be cancelled
    result,     \* what toTree returned: kind "none" / "tree" / "error", and the Tree's Inputs
    \* ---- pir: fixedPointOptimizer and the Trace it rewrites
    steps,      \* the heap of pir steps: type, val (the state rules rewrite), parent
    top,        \* Trace.top
    rules,      \* fixedPointOptimizer.rules: type name -> rules in registration order
    regLog,     \* the rules in the order add was called
    fpo,        \* optimize: position and the locals s, prev, somethingChanged
    lastApply,  \* the most recent apply: heap before, step, rules invoked, result
    intactSeen, \* the steps the current pass has left as fpoIntact, in order
    passes,     \* how many passes have begun (capped)
    \* ---- one call of a function of expr or of the plan lowering
    arg,        \* the arguments of the call
    pcCall,     \* "idle" before the call, "done" after it
    ret,        \* what the call returned
    \* ---- UnpivotAtDistinct (vm/unpivot.go): the streams opened on one operator
    kern,       \* per thread: its kernelUnpivotAtDistinct (syms, buf, dummy) and position
    downRows,   \* per field name, how many rows u.out.writeRows has written downstream
    fieldsSeen, \* history: the field names met in the rows given to writeRows
    \* ---- indexSink (plan/output.go)
    idxSink,    \* indexSink: closed, idx.Inline; history: indexes written, rows emitted
    closer      \* per goroutine: its position in uploadSink.Close / indexSink.Close

varsU == <<hashOf, root, nodes, thr, rets>>
varsP == <<inputs, latest, leaves, attempts, pcPlan, fi, outInputs, statLog, cancelReq, result>>
varsO == <<steps, top, rules, regLog, fpo, lastApply, intactSeen, passes>>
varsE == <<arg, pcCall, ret>>
varsK == <<kern, downRows, fieldsSeen>>
varsS == <<idxSink, closer>>
vars == <<varsU, varsP, varsO, varsE, varsK, varsS>>

\* no call: nothing passed, nothing returned
NoArg == [f |-> "none"]
NoRet == [f |-> "none"]

\* no stream opened on the UnpivotAtDistinct yet
NoSyms == <<>>
NewKernel == [pc |-> "idle", syms |-> NoSyms, buf |-> {}, todo |-> {}, cur |-> <<>>, dummy |-> <<>>]
NoKernels == [t \in 1..NThreads |-> NewKernel]
NoRows == [d \in { <<1>>, <<2>>, <<1, 2>> } |-> 0]

\* &indexSink{...}: closed is false, idx.Inline is empty
NewIndexSink == [closed |-> FALSE, inline |-> {}, written |-> <<>>, rows |-> 0]
NoClosers == [g \in 1..NThreads |-> [pc |-> "idle", calls |-> 0]]

(***************************************************************************)
(* randomTreeUnifier                                                       *)
(***************************************************************************)
Threads == 1..NThreads

\* the byte strings offered to unify
Strings == { <<1>>, <<2>>, <<1, 2>> }

\* bytes.Compare: -1, 0 or +1, lexicographic
RECURSIVE bytesCompare(_, _)
bytesCompare(a, b) ==
    IF a = <<>> /\ b = <<>> THEN 0
    ELSE IF a = <<>> THEN -1
    ELSE IF b = <<>> THEN 1
    ELSE IF Head(a) < Head(b) THEN -1
    ELSE IF Head(a) > Head(b) THEN 1
    ELSE bytesCompare(Tail(a), Tail(b))

\* ints.BoolTo[uint]: false -> 0, true -> 1
BoolTo(b) == IF b THEN 1 ELSE 0

Nil == 0
NodeIds == 1..MaxCalls
\* the address &u.root
RootIP == <<0, 0>>
\* the address &q.link[b]
LinkIP(q, b) == <<q, b>>

\* load(ip): atomic.LoadPointer
load(ip) == IF ip = RootIP THEN root ELSE nodes[ip[1]].link[ip[2] + 1]

\* the node a call allocates, &randomTreeUnifierNode{hash: h, data: buf}: a
\* fresh object, here the first id not yet allocated
NewNodeId == CHOOSE n \in NodeIds :
                 /\ ~nodes[n].alloc
                 /\ \A m \in NodeIds : m < n => nodes[m].alloc

\* aes.HashSlice is a deterministic function of the bytes within one process;
\* the cases: all strings collide, no collision (hash order differing from
\* the byte order), and a collision of two of the three strings
HashFns == { [d \in Strings |-> 7],
             [d \in Strings |-> IF d = <<1>> THEN 3 ELSE IF d = <<2>> THEN 1 ELSE 2],
             [d \in Strings |-> IF d = <<1, 2>> THEN 2 ELSE 5] }

\* the hash function of the runs with streams and of the fair runs: it
\* collides on <<1>>, <<2>> and separates <<1, 2>>, so that both the hash
\* order and the byte order decide insertion points
mixedHash == [d \in Strings |-> IF d = <<1, 2>> THEN 2 ELSE 5]

IdleThread == [pc |-> "idle", data |-> <<>>, h |-> 0, ip |-> RootIP, p |-> Nil, fails |-> 0]

\* a thread whose call has returned: the locals data, h, ip, p are gone
returned(me) == [IdleThread EXCEPT !.fails = me.fails]

NoNodes == [n \in NodeIds |-> [alloc |-> FALSE, hash |-> 0, data |-> <<>>, link |-> <<Nil, Nil>>]]
NoRets == [d \in Strings |-> [t |-> 0, f |-> 0]]

\* the unify calls made so far: those that returned and those in flight
RECURSIVE returnedCalls(_)
returnedCalls(S) == IF S = {} THEN 0
                    ELSE LET d == CHOOSE x \in S : TRUE
                         IN rets[d].t + rets[d].f + returnedCalls(S \ {d})
callsMade == returnedCalls(Strings) + Cardinality({ t \in Threads : thr[t].pc # "idle" })

\* unify entry: h := aes.HashSlice(data); p = nil; ip := &u.root
unifyEnter(t, d) ==
    /\ thr[t].pc = "idle"
    /\ callsMade < MaxCalls
    /\ thr' = [thr EXCEPT ![t] = [pc |-> "load", data |-> d, h |-> hashOf[d],
                                  ip |-> RootIP, p |-> Nil, fails |-> 0]]
    /\ UNCHANGED <<hashOf, root, nodes, rets>>

\* a call of unify by a caller that is not modelled further
unifyCall(t, d) ==
    /\ unifyEnter(t, d)
    /\ UNCHANGED <<varsP, varsO, varsE, varsK, varsS>>

\* mutant of nextIP: the bytes are not compared when the hashes are equal
nextIP_hashOnly(q, h, data) == LinkIP(q, BoolTo(h > nodes[q].hash))

\* the insertion point after q was compared (lines 471-483)
nextIP(q, h, data) ==
    IF nodes[q].hash = h
    THEN LinkIP(q, BoolTo(bytesCompare(data, nodes[q].data) > 0))
    ELSE LinkIP(q, BoolTo(h > nodes[q].hash))

\* one iteration of the for loop up to (excluding) the CAS: q := load(ip) ...
unifyLoadStep(t) ==
    /\ thr[t].pc = "load"
    /\ LET q == load(thr[t].ip)
           me == thr[t]
       IN IF q # Nil
          THEN IF nodes[q].hash = me.h /\ bytesCompare(me.data, nodes[q].data) = 0
               THEN \* a matching node already exists: return false
                    /\ thr' = [thr EXCEPT ![t] = returned(me)]
                    /\ rets' = [rets EXCEPT ![me.data].f = @ + 1]
                    /\ UNCHANGED nodes
               ELSE /\ thr' = [thr EXCEPT ![t].ip = nextIP(q, me.h, me.data)]
                    /\ UNCHANGED <<nodes, rets>>
          ELSE \* an empty insertion point: allocate p on first need
               IF me.p = Nil
               THEN /\ nodes' = [nodes EXCEPT ![NewNodeId] =
                                   [alloc |-> TRUE, hash |-> me.h, data |-> me.data, link |-> <<Nil, Nil>>]]
                    /\ thr' = [thr EXCEPT ![t].pc = "cas", ![t].p = NewNodeId]
                    /\ UNCHANGED rets
               ELSE /\ thr' = [thr EXCEPT ![t].pc = "cas"]
                    /\ UNCHANGED <<nodes, rets>>
    /\ UNCHANGED <<hashOf, root>>

\* unify's loop in a caller that is not modelled further
unifyLoad(t) ==
    /\ unifyLoadStep(t)
    /\ UNCHANGED <<varsP, varsO, varsE, varsK, varsS>>

\* mutant of unifyCAS: a plain store in place of the compare-and-swap
unifyCAS_store(t) ==
    /\ thr[t].pc = "cas"
    /\ LET me == thr[t]
       IN /\ IF me.ip = RootIP
             THEN root' = me.p /\ UNCHANGED nodes
             ELSE /\ nodes' = [nodes EXCEPT ![me.ip[1]].link[me.ip[2] + 1] = me.p]
                  /\ UNCHANGED root
          /\ thr' = [thr EXCEPT ![t] = returned(me)]
          /\ rets' = [rets EXCEPT ![me.data].t = @ + 1]
    /\ UNCHANGED <<hashOf, varsP, varsO, varsE, varsK, varsS>>

\* mutant of unifyCAS: after a failed compare-and-swap the search starts
\* again at the root
unifyCAS_restart(t) ==
    /\ thr[t].pc = "cas"
    /\ LET me == thr[t]
       IN IF load(me.ip) = Nil
          THEN /\ IF me.ip = RootIP
                  THEN root' = me.p /\ UNCHANGED nodes
                  ELSE /\ nodes' = [nodes EXCEPT ![me.ip[1]].link[me.ip[2] + 1] = me.p]
                       /\ UNCHANGED root
               /\ thr' = [thr EXCEPT ![t] = returned(me)]
               /\ rets' = [rets EXCEPT ![me.data].t = @ + 1]
          ELSE /\ thr' = [thr EXCEPT ![t].pc = "load", ![t].fails = 1, ![t].ip = RootIP]
               /\ UNCHANGED <<root, nodes, rets>>
    /\ UNCHANGED <<hashOf, varsP, varsO, varsE, varsK, varsS>>

\* atomic.CompareAndSwapPointer(ip, nil, p), then return true or Pause and retry
unifyCASStep(t) ==
    /\ thr[t].pc = "cas"
    /\ LET me == thr[t]
       IN IF load(me.ip) = Nil
          THEN /\ IF me.ip = RootIP
                  THEN root' = me.p /\ UNCHANGED nodes
                  ELSE /\ nodes' = [nodes EXCEPT ![me.ip[1]].link[me.ip[2] + 1] = me.p]
                       /\ UNCHANGED root
               /\ thr' = [thr EXCEPT ![t] = returned(me)]
               /\ rets' = [rets EXCEPT ![me.data].t = @ + 1]
          ELSE \* insertion failed: atomicext.Pause() and retry at the same ip
               /\ thr' = [thr EXCEPT ![t].pc = "load", ![t].fails = 1]
               /\ UNCHANGED <<root, nodes, rets>>
    /\ UNCHANGED hashOf

\* unify's compare-and-swap in a caller that is not modelled further
unifyCAS(t) ==
    /\ unifyCASStep(t)
    /\ UNCHANGED <<varsP, varsO, varsE, varsK, varsS>>

NextUnify ==
    \/ \E t \in Threads, d \in Strings : unifyCall(t, d)
    \/ \E t \in Threads : unifyLoad(t)
    \/ \E t \in Threads : unifyCAS(t)



\* the nodes reachable from the root, and the strings the tree holds
RECURSIVE reach(_)
reach(q) == IF q = Nil THEN {}
            ELSE {q} \cup reach(nodes[q].link[1]) \cup reach(nodes[q].link[2])
treeNodes == reach(root)
treeStrings == { nodes[q].data : q \in treeNodes }

calledStrings == { d \in Strings : rets[d].t + rets[d].f > 0 } \cup
                 { thr[t].data : t \in { u \in Threads : thr[u].pc # "idle" } }
allReturned == \A t \in Threads : thr[t].pc = "idle"

\* C1: concurrent unify calls: per distinct string exactly one call returns
\* true (the one that linked it), every other call with that string returns
\* false and does so only when the string is in the tree, and once all
\* calls have returned the tree holds exactly the set-union of the strings
\* passed to unify, each in exactly one node.
C1_UnifyOnce ==
    /\ \A d \in Strings : rets[d].t = (IF d \in treeStrings THEN 1 ELSE 0)
    /\ \A d \in Strings : rets[d].f > 0 => d \in treeStrings
    /\ allReturned =>
          /\ \A d \in calledStrings : rets[d].t = 1
          /\ treeStrings = calledStrings
          /\ Cardinality(treeNodes) = Cardinality(calledStrings)

\* C1 witness: all calls returned, one of them after a failed CAS, one with
\* false, and the tree holds two or more strings
C1_Witness ==
    /\ allReturned
    /\ callsMade = MaxCalls
    /\ \E t \in Threads : thr[t].fails > 0
    /\ \E d \in Strings : rets[d].f > 0
    /\ Cardinality(treeStrings) >= 2

(***************************************************************************)
(* expr: the AST nodes that occur in filter hints                          *)
(***************************************************************************)
NilExpr == [k |-> "nil"]

\* The numbers of the literals: hi * 2^53 + n / d with n / d in lowest terms
\* and d > 0; d = 0 stands for NaN. An Integer holds a number with d = 1, a
\* Rational one with hi = 0, and a Float holds the float64 nearest to the
\* number (which is the number itself when float64 represents it).
Num(hi, n, d) == [hi |-> hi, n |-> n, d |-> d]
I(n) == Num(0, n, 1)
NaNval == Num(0, 0, 0)

Ident(s) == [k |-> "ident", name |-> s]
Integer(v) == [k |-> "int", v |-> v]
Float(v) == [k |-> "float", v |-> v]
Rational(v) == [k |-> "rat", v |-> v]
Bool(v) == [k |-> "bool", v |-> v]
String(v) == [k |-> "string", v |-> v]
Null == [k |-> "null"]
Star == [k |-> "star"]
Missing == [k |-> "missing"]
Timestamp(v) == [k |-> "timestamp", v |-> v]
Dot(inner, field) == [k |-> "dot", inner |-> inner, field |-> field]
Index(inner, offset) == [k |-> "index", inner |-> inner, offset |-> offset]
Compare(op, left, right) == [k |-> "cmp", op |-> op, left |-> left, right |-> right]
Logical(op, left, right) == [k |-> "logical", op |-> op, left |-> left, right |-> right]
Not(e) == [k |-> "not", expr |-> e]
\* Aggregate: Inner and Filter may be nil; Over is nil or a Window
NoWindow == [k |-> "nil"]
Window(partitionBy) == [k |-> "window", partitionBy |-> partitionBy]
Aggregate(op, precision, inner, over, filter) ==
    [k |-> "aggregate", op |-> op, precision |-> precision, inner |-> inner,
     over |-> over, filter |-> filter]
\* expr.And: &Logical{Op: OpAnd, Left: left, Right: right}
And(left, right) == Logical("and", left, right)
Or(left, right) == Logical("or", left, right)

\* float64 == float64: NaN equals nothing
floatEq(x, y) == x.d # 0 /\ y.d # 0 /\ x = y

\* round to nearest, ties to even, of 2^53 + n in [2^53, 2^54), where the
\* float64 values are 2 apart
roundEven(n) == IF n % 2 = 0 THEN n
                ELSE IF ((n - 1) \div 2) % 2 = 0 THEN n - 1 ELSE n + 1

\* float64(int64(i)): exact below 2^53, rounded above
float64OfInt(i) == IF i.hi = 0 THEN i ELSE [i EXCEPT !.n = roundEven(i.n)]

\* int64(f): truncation towards zero; of NaN the amd64 result, -2^63
int64OfFloat(f) ==
    IF f.d = 0 THEN Num(-1024, 0, 1)
    ELSE IF f.n >= 0 THEN Num(f.hi, f.n \div f.d, 1)
    ELSE Num(f.hi, -((-f.n) \div f.d), 1)

\* (*big.Rat).Float64(): the nearest float64 and whether it is exact
ratFloat64(r) == [f |-> r, exact |-> r.d \in {1, 2, 4, 8, 16}]

\* math.Abs(f - g) < 1e-16: distinct float64 values of the literals used
\* here are at least 1/64 apart
absDiffTiny(f, g) == f.d # 0 /\ g.d # 0 /\ f = g

\* Integer.Equals, Float.Equals, Rational.Equals
numEquals(a, b) ==
    CASE a.k = "int" ->
            IF b.k = "int" THEN a.v = b.v
            ELSE IF b.k = "float"
                 THEN floatEq(float64OfInt(int64OfFloat(b.v)), b.v) /\ int64OfFloat(b.v) = a.v
            ELSE IF b.k = "rat" THEN b.v.d = 1 /\ b.v = a.v
            ELSE FALSE
      [] a.k = "float" ->
            IF b.k = "float" THEN floatEq(a.v, b.v)
            ELSE IF b.k = "int" THEN floatEq(a.v, float64OfInt(b.v))
            ELSE IF b.k = "rat"
                 THEN ratFloat64(b.v).exact /\ floatEq(ratFloat64(b.v).f, a.v)
            ELSE FALSE
      [] a.k = "rat" ->
            IF b.k = "rat" THEN a.v = b.v
            ELSE IF b.k = "float" THEN absDiffTiny(ratFloat64(a.v).f, b.v)
            ELSE IF b.k = "int" THEN a.v.d = 1 /\ b.v = a.v
            ELSE FALSE

RECURSIVE Equals(_, _)

\* slices.EqualFunc(s, t, Equivalent)
RECURSIVE Equivalent(_, _)
EqualFunc(s, t) == Len(s) = Len(t) /\ \A i \in 1..Len(s) : Equivalent(s[i], t[i])

\* Aggregate.Equals; the Window holds PartitionBy only
aggregateEquals(a, ea) ==
    IF ea.op # a.op \/ (a.inner = NilExpr) # (ea.inner = NilExpr)
       \/ (a.inner # NilExpr /\ ~Equals(a.inner, ea.inner)) THEN FALSE
    ELSE IF ea.precision # a.precision THEN FALSE
    ELSE IF (a.filter # NilExpr) # (ea.filter # NilExpr) THEN FALSE
    ELSE IF a.filter # NilExpr /\ ~Equals(a.filter, ea.filter) THEN FALSE
    ELSE IF a.over = NoWindow THEN ea.over = NoWindow
    ELSE ea.over # NoWindow /\ EqualFunc(a.over.partitionBy, ea.over.partitionBy)

\* Node.Equals, by dynamic type of the receiver
Equals(a, b) ==
    CASE a.k = "ident" -> b.k = "ident" /\ a.name = b.name
      [] a.k \in {"int", "float", "rat"} -> numEquals(a, b)
      [] a.k \in {"bool", "string"} -> b.k = a.k /\ a.v = b.v
      [] a.k \in {"null", "star", "missing"} -> b.k = a.k
      [] a.k = "timestamp" -> b.k = "timestamp" /\ a.v = b.v
      [] a.k = "dot" -> b.k = "dot" /\ b.field = a.field /\ Equals(a.inner, b.inner)
      [] a.k = "index" -> b.k = "index" /\ a.offset = b.offset /\ Equals(a.inner, b.inner)
      [] a.k = "cmp" -> b.k = "cmp" /\ a.op = b.op
                        /\ Equals(a.left, b.left) /\ Equals(a.right, b.right)
      [] a.k = "logical" -> b.k = "logical" /\ a.op = b.op
                        /\ Equals(a.left, b.left) /\ Equals(a.right, b.right)
      [] a.k = "not" -> b.k = "not" /\ Equals(a.expr, b.expr)
      [] a.k = "aggregate" -> b.k = "aggregate" /\ aggregateEquals(a, b)
      [] OTHER -> FALSE

\* a == b on the Node interface: for the value types the same type and
\* value (a NaN differs from itself); the nodes of pointer type compared
\* here are distinct objects
ValueKinds == {"ident", "int", "float", "bool", "string", "null", "star", "missing"}
sameNode(a, b) ==
    /\ a.k = b.k /\ a.k \in ValueKinds
    /\ IF a.k = "float" THEN floatEq(a.v, b.v) ELSE a = b

\* expr.Equivalent: identical, or Equals
Equivalent(a, b) == sameNode(a, b) \/ Equals(a, b)

(***************************************************************************)
(* expr: the binary codec (Encode, Decode, SetField)                       *)
(***************************************************************************)
\* ion datums: primitives, lists and structs (a sequence of labelled fields)
Prim(t, v) == [t |-> t, v |-> v]
Field(label, datum) == [label |-> label, datum |-> datum]
StructOf(type, fields) == [t |-> "struct", type |-> type, fields |-> fields]
ListOf(items) == [t |-> "list", items |-> items]

ApproxOps == { "approx_count_distinct", "approx_count_distinct_partial",
               "approx_count_distinct_merge" }

\* the optional field of an encoder: written when present
optField(present, label, datum) == IF present THEN <<Field(label, datum)>> ELSE <<>>

\* Node.Encode, by dynamic type
RECURSIVE Encode(_)
encodeAll(s) == [i \in 1..Len(s) |-> Encode(s[i])]
encodeAggregate(a) ==
    StructOf("aggregate",
        <<Field("op", Prim("uint", a.op))>>
        \o optField(a.op \in ApproxOps, "precision", Prim("uint", a.precision))
        \o (IF a.inner # NilExpr THEN <<Field("inner", Encode(a.inner))>> ELSE <<>>)
        \o (IF a.over # NoWindow
            THEN <<Field("over_partition", ListOf(encodeAll(a.over.partitionBy)))>> ELSE <<>>)
        \o (IF a.filter # NilExpr THEN <<Field("filter_where", Encode(a.filter))>> ELSE <<>>))
Encode(n) ==
    CASE n.k = "bool" -> Prim("bool", n.v)
      [] n.k = "string" -> Prim("string", n.v)
      [] n.k = "float" -> Prim("float", n.v)
      [] n.k = "int" -> Prim("int", n.v)
      [] n.k = "null" -> Prim("null", 0)
      [] n.k = "timestamp" -> Prim("timestamp", n.v)
      [] n.k = "ident" -> Prim("symbol", n.name)
      [] n.k = "rat" -> StructOf("rat", <<Field("blob", Prim("blob", n.v))>>)
      [] n.k = "dot" -> StructOf("dot", <<Field("inner", Encode(n.inner)),
                                          Field("field", Prim("symbol", n.field))>>)
      [] n.k = "index" -> StructOf("index", <<Field("inner", Encode(n.inner)),
                                              Field("offset", Prim("int", n.offset))>>)
      [] n.k = "star" -> StructOf("star", <<>>)
      [] n.k = "missing" -> StructOf("missing", <<>>)
      [] n.k = "cmp" -> StructOf("cmp", <<Field("op", Prim("uint", n.op)),
                                          Field("left", Encode(n.left)),
                                          Field("right", Encode(n.right))>>)
      [] n.k = "logical" -> StructOf("logical", <<Field("op", Prim("uint", n.op)),
                                                  Field("left", Encode(n.left)),
                                                  Field("right", Encode(n.right))>>)
      [] n.k = "not" -> StructOf("not", <<Field("inner", Encode(n.expr))>>)
      [] n.k = "aggregate" -> encodeAggregate(n)

errUnexpectedField == [k |-> "error", err |-> "unexpected field"]

\* the zero value of the variant a 'type' symbol names
emptyNode(type) ==
    CASE type = "rat" -> Rational(I(0))
      [] type = "dot" -> Dot(NilExpr, "")
      [] type = "index" -> Index(NilExpr, 0)
      [] type = "star" -> Star
      [] type = "missing" -> Missing
      [] type = "cmp" -> Compare("", NilExpr, NilExpr)
      [] type = "logical" -> Logical("", NilExpr, NilExpr)
      [] type = "not" -> Not(NilExpr)
      [] type = "aggregate" -> Aggregate("", 0, NilExpr, NoWindow, NilExpr)

RECURSIVE Decode(_)
decodeAll(items) == [i \in 1..Len(items) |-> Decode(items[i])]

\* the Window of an Aggregate with PartitionBy extended by the decoded items
overWith(over, items) ==
    Window((IF over = NoWindow THEN <<>> ELSE over.partitionBy) \o decodeAll(items))

\* (variant).SetField(f): the receiver afterwards, or the error
SetField(n, f) ==
    CASE n.k = "rat" ->
            IF f.label = "blob" THEN Rational(f.datum.v) ELSE errUnexpectedField
      [] n.k = "dot" ->
            IF f.label = "inner" THEN [n EXCEPT !.inner = Decode(f.datum)]
            ELSE IF f.label = "field" THEN [n EXCEPT !.field = f.datum.v]
            ELSE errUnexpectedField
      [] n.k = "index" ->
            IF f.label = "inner" THEN [n EXCEPT !.inner = Decode(f.datum)]
            ELSE IF f.label = "offset" THEN [n EXCEPT !.offset = f.datum.v]
            ELSE errUnexpectedField
      [] n.k \in {"star", "missing"} -> errUnexpectedField
      [] n.k \in {"cmp", "logical"} ->
            IF f.label = "op" THEN [n EXCEPT !.op = f.datum.v]
            ELSE IF f.label = "left" THEN [n EXCEPT !.left = Decode(f.datum)]
            ELSE IF f.label = "right" THEN [n EXCEPT !.right = Decode(f.datum)]
            ELSE errUnexpectedField
      [] n.k = "not" ->
            IF f.label = "inner" THEN [n EXCEPT !.expr = Decode(f.datum)]
            ELSE errUnexpectedField
      [] n.k = "aggregate" ->
            IF f.label = "op" THEN [n EXCEPT !.op = f.datum.v]
            ELSE IF f.label = "inner" THEN [n EXCEPT !.inner = Decode(f.datum)]
            ELSE IF f.label = "over_partition"
                 THEN [n EXCEPT !.over = overWith(n.over, f.datum.items)]
            ELSE IF f.label = "filter_where" THEN [n EXCEPT !.filter = Decode(f.datum)]
            ELSE IF f.label = "precision" THEN [n EXCEPT !.precision = f.datum.v]
            ELSE errUnexpectedField

\* the fields of a struct applied in order to the empty node; the first
\* error ends the decoding
RECURSIVE setFields(_, _)
setFields(n, fields) ==
    IF fields = <<>> \/ n.k = "error" THEN n
    ELSE setFields(SetField(n, Head(fields)), Tail(fields))

\* expr.Decode: bare literals from the primitives, a symbol as an Ident, a
\* struct by its 'type' symbol and SetField on each of its named fields
Decode(d) ==
    CASE d.t = "bool" -> Bool(d.v)
      [] d.t = "string" -> String(d.v)
      [] d.t = "float" -> Float(d.v)
      [] d.t = "int" -> Integer(d.v)
      [] d.t = "null" -> Null
      [] d.t = "timestamp" -> Timestamp(d.v)
      [] d.t = "symbol" -> Ident(d.v)
      [] d.t = "struct" -> setFields(emptyNode(d.type), d.fields)

(***************************************************************************)
(* expr: path expressions                                                  *)
(***************************************************************************)
RECURSIVE IsPath(_)
IsPath(e) ==
    CASE e.k = "ident" -> TRUE
      [] e.k = "dot" -> IsPath(e.inner)
      [] e.k = "index" -> IsPath(e.inner)
      [] OTHER -> FALSE

\* MakePath(path): p := Ident(path[0]); for field in path[1:] { p = &Dot{p, field} }
RECURSIVE makePathFrom(_, _)
makePathFrom(p, rest) ==
    IF rest = <<>> THEN p ELSE makePathFrom(Dot(p, Head(rest)), Tail(rest))
MakePath(path) == makePathFrom(Ident(Head(path)), Tail(path))

NotFlat == [fields |-> <<>>, ok |-> FALSE]

\* mutant of FlatPath: the field of a Dot is put in front of the components
RECURSIVE FlatPath_prepend(_)
FlatPath_prepend(e) ==
    CASE e.k = "ident" -> [fields |-> <<e.name>>, ok |-> TRUE]
      [] e.k = "dot" ->
            IF FlatPath_prepend(e.inner).ok
            THEN [fields |-> <<e.field>> \o FlatPath_prepend(e.inner).fields, ok |-> TRUE]
            ELSE NotFlat
      [] OTHER -> NotFlat

\* FlatPath(e): the path components and ok, or (nil, false)
RECURSIVE FlatPath(_)
FlatPath(e) ==
    CASE e.k = "ident" -> [fields |-> <<e.name>>, ok |-> TRUE]
      [] e.k = "dot" ->
            IF FlatPath(e.inner).ok
            THEN [fields |-> Append(FlatPath(e.inner).fields, e.field), ok |-> TRUE]
            ELSE NotFlat
      [] OTHER -> NotFlat

(***************************************************************************)
(* plan lowering: predicate decomposition and filter-hint merging          *)
(***************************************************************************)
\* conjunctions with the operands of an AND taken left operand first
RECURSIVE conjunctions_leftFirst(_, _)
conjunctions_leftFirst(e, lst) ==
    IF ~(e.k = "logical" /\ e.op = "and")
    THEN Append(lst, e)
    ELSE conjunctions_leftFirst(e.right, conjunctions_leftFirst(e.left, lst))

\* conjunctions(e, lst): appends the top-level conjunctions of e to lst
RECURSIVE conjunctions(_, _)
conjunctions(e, lst) ==
    IF ~(e.k = "logical" /\ e.op = "and")
    THEN Append(lst, e)
    ELSE conjunctions(e.left, conjunctions(e.right, lst))

\* conjoin(x): o := x[0]; for n in x[1:] { o = expr.And(o, n) }
RECURSIVE conjoinFrom(_, _)
conjoinFrom(o, rest) ==
    IF rest = <<>> THEN o ELSE conjoinFrom(And(o, Head(rest)), Tail(rest))
\* mutant of conjoin: o = n in place of o = expr.And(o, n)
conjoin_last(x) == x[Len(x)]
conjoin(x) == conjoinFrom(Head(x), Tail(x))

isTimestamp(e) == e.k = "timestamp"

RECURSIVE canRemoveHint(_)
canRemoveHint(e) ==
    IF e.k = "logical" THEN canRemoveHint(e.left) /\ canRemoveHint(e.right)
    ELSE IF e.k # "cmp" THEN TRUE
    ELSE ~(isTimestamp(e.left) \/ isTimestamp(e.right))

\* s[j], s = s[len(s)-1], s[:len(s)-1]
swapRemove(s, j) == SubSeq([s EXCEPT ![j] = s[Len(s)]], 1, Len(s) - 1)

\* the least j with Equivalent(yconj[j], v), or 0
firstMatch(yconj, v) ==
    IF \E j \in 1..Len(yconj) : Equivalent(yconj[j], v)
    THEN CHOOSE j \in 1..Len(yconj) :
            /\ Equivalent(yconj[j], v)
            /\ \A m \in 1..(j - 1) : ~Equivalent(yconj[m], v)
    ELSE 0

\* the 'outer' loop of mergeFilterHint, from index i (1-based) on; j is the
\* index of the partner of xconj[i] in yconj, or 0
RECURSIVE overlapLoop(_, _, _, _)
overlapStep(i, xconj, yconj, overlap, j) ==
    IF j # 0
    THEN overlapLoop(i, swapRemove(xconj, i), swapRemove(yconj, j), Append(overlap, xconj[i]))
    ELSE IF ~canRemoveHint(xconj[i])
         THEN [ok |-> FALSE, i |-> i, xconj |-> xconj, yconj |-> yconj, overlap |-> overlap]
         ELSE overlapLoop(i + 1, xconj, yconj, overlap)
overlapLoop(i, xconj, yconj, overlap) ==
    IF ~(i <= Len(xconj) /\ Len(yconj) > 0)
    THEN [ok |-> TRUE, i |-> i, xconj |-> xconj, yconj |-> yconj, overlap |-> overlap]
    ELSE overlapStep(i, xconj, yconj, overlap, firstMatch(yconj, xconj[i]))

\* mutant of restRemovable: the loop over xconj[i:] is missing
restRemovable_skip(xconj, i) == TRUE

\* whether the left-over conjuncts xconj[i:] can all be eliminated (lines 450-454)
restRemovable(xconj, i) == \A m \in i..Len(xconj) : canRemoveHint(xconj[m])

\* mergeFilterHint after the 'outer' loop returned r (lines 450-467)
mergeFilterTail(x, r) ==
    IF ~r.ok THEN [ok |-> FALSE, filter |-> x.filter]
    ELSE IF ~restRemovable(r.xconj, r.i) THEN [ok |-> FALSE, filter |-> x.filter]
    ELSE IF \E m \in 1..Len(r.yconj) : ~canRemoveHint(r.yconj[m])
         THEN [ok |-> FALSE, filter |-> x.filter]
    ELSE [ok |-> TRUE,
          filter |-> IF Len(r.overlap) > 0 THEN conjoin(r.overlap) ELSE NilExpr]

\* the conjunctions of a filter hint, none for a nil filter (lines 422-428)
hintConj(f) == IF f # NilExpr THEN conjunctions(f, <<>>) ELSE <<>>

\* mergeFilterHint(x, y): ok, and the new x.hints.Filter
mergeFilterHint(x, y) ==
    mergeFilterTail(x, overlapLoop(1, hintConj(x.filter), hintConj(y.filter), <<>>))

\* the order of the field (path) strings
fieldOrd == [f \in {"a", "b", "c", "t"} |->
                CASE f = "a" -> 1 [] f = "b" -> 2 [] f = "c" -> 3 [] f = "t" -> 4]

\* slices.Sort
RECURSIVE insertSorted(_, _)
insertSorted(f, s) ==
    IF s = <<>> THEN <<f>>
    ELSE IF fieldOrd[f] <= fieldOrd[Head(s)] THEN <<f>> \o s
    ELSE <<Head(s)>> \o insertSorted(f, Tail(s))
RECURSIVE slicesSort(_)
slicesSort(s) == IF s = <<>> THEN <<>> ELSE insertSorted(Head(s), slicesSort(Tail(s)))

\* slices.Compact: drops consecutive duplicates
RECURSIVE slicesCompact(_)
slicesCompact(s) ==
    IF Len(s) <= 1 THEN s
    ELSE IF s[1] = s[2] THEN slicesCompact(Tail(s))
    ELSE <<Head(s)>> \o slicesCompact(Tail(s))

NilHandle == [k |-> "nil"]

\* mutant of mergeFields: the appended field list is compacted without
\* being sorted
mergeFields_unsorted(i1, in) ==
    IF i1.allFields THEN i1
    ELSE IF in.allFields THEN [i1 EXCEPT !.fields = <<>>, !.allFields = TRUE]
    ELSE [i1 EXCEPT !.fields = slicesCompact(i1.fields \o in.fields)]

\* mutant of mergeFields: a wildcard trial input does not make the receiver
\* all-fields
mergeFields_forgetWildcard(i1, in) ==
    IF i1.allFields \/ in.allFields THEN i1
    ELSE [i1 EXCEPT !.fields = slicesCompact(slicesSort(i1.fields \o in.fields))]

\* input.merge after mergeFilterHint succeeded, on the receiver i1 with
\* the new filter (lines 477-489)
mergeFields(i1, in) ==
    IF i1.allFields THEN i1
    ELSE IF in.allFields THEN [i1 EXCEPT !.fields = <<>>, !.allFields = TRUE]
    ELSE [i1 EXCEPT !.fields = slicesCompact(slicesSort(i1.fields \o in.fields))]

\* mutant of mergeWith: the field lists are merged before the filter hints
\* are looked at
mergeWith_fieldsFirst(i, in, m) ==
    IF ~m.ok THEN [ok |-> FALSE, input |-> mergeFields(i, in)]
    ELSE [ok |-> TRUE,
          input |-> mergeFields([i EXCEPT !.filter = m.filter, !.handle = NilHandle], in)]

\* input.merge after the tables were found equal and mergeFilterHint
\* returned m (lines 474-489)
mergeWith(i, in, m) ==
    IF ~m.ok THEN [ok |-> FALSE, input |-> i]
    ELSE [ok |-> TRUE,
          input |-> mergeFields([i EXCEPT !.filter = m.filter, !.handle = NilHandle], in)]

\* input.merge(in): ok, and the receiver afterwards
merge(i, in) ==
    IF ~Equals(i.table, in.table) THEN [ok |-> FALSE, input |-> i]
    ELSE mergeWith(i, in, mergeFilterHint(i, in))

\* the input walker.put builds from an IterTable
trialInput(it) ==
    [table |-> it.table, filter |-> it.filter, fields |-> it.fields,
     allFields |-> it.wildcard, handle |-> NilHandle]

\* the loop of walker.put from slot i on: the slot that took the input (0 if
\* none), the input table afterwards, and the merge attempts made
RECURSIVE putLoop(_, _, _, _)
putStep(i, ins, in, att, m) ==
    IF m.ok
    THEN [slot |-> i, inputs |-> [ins EXCEPT ![i] = m.input],
          attempts |-> Append(att, [x |-> ins[i], in |-> in, ok |-> m.ok, out |-> m.input])]
    ELSE putLoop(i + 1, [ins EXCEPT ![i] = m.input], in,
                 Append(att, [x |-> ins[i], in |-> in, ok |-> m.ok, out |-> m.input]))
putLoop(i, ins, in, att) ==
    IF i > Len(ins) THEN [slot |-> 0, inputs |-> ins, attempts |-> att]
    ELSE putStep(i, ins, in, att, merge(ins[i], in))

\* mutant of putResult: a new input is put in front of the input table
putResult_prepend(in, r) ==
    IF r.slot # 0
    THEN [inputs |-> r.inputs, latest |-> r.slot - 1, attempts |-> r.attempts]
    ELSE [inputs |-> <<in>> \o r.inputs, latest |-> 0, attempts |-> r.attempts]

\* walker.put after its loop returned r (lines 512-517)
putResult(in, r) ==
    IF r.slot # 0
    THEN [inputs |-> r.inputs, latest |-> r.slot - 1, attempts |-> r.attempts]
    ELSE [inputs |-> Append(r.inputs, in), latest |-> Len(r.inputs), attempts |-> r.attempts]

\* walker.put(it): the new w.inputs and w.latest (slots are 0-based in the
\* code and 1-based here: slot s of the code is index s + 1)
put(ins, it) == putResult(trialInput(it), putLoop(1, ins, trialInput(it), <<>>))

(***************************************************************************)
(* plan lowering: the walk over the leaves, walker.finish and toTree       *)
(***************************************************************************)
gt10 == Compare(">", Ident("a"), Integer(I(10)))
gt10f == Compare(">", Ident("a"), Float(I(10)))
lt5 == Compare("<", Ident("b"), Integer(I(5)))
tsLt == Compare("<", Ident("t"), Timestamp(1))

\* the filters pushed down to the leaves
Filters == { NilExpr, gt10, gt10f, And(gt10, lt5), And(And(gt10, lt5), gt10),
             tsLt, And(tsLt, gt10), Or(tsLt, lt5), Not(tsLt) }

\* the field sets of the leaves: it.Fields() and it.Wildcard()
FieldOpts == { [fields |-> <<"a">>, wildcard |-> FALSE],
               [fields |-> <<>>, wildcard |-> TRUE] }

\* the pir.IterTable steps the walk can meet: the plain filters with every
\* field set, the other filters with one field set, and a second table
PlainFilters == { NilExpr, gt10 }
IterTables ==
    { [table |-> Ident("T1"), filter |-> f, fields |-> o.fields, wildcard |-> o.wildcard] :
        f \in PlainFilters, o \in FieldOpts }
    \cup
    { [table |-> Ident("T1"), filter |-> f, fields |-> <<"a", "b">>, wildcard |-> FALSE] :
        f \in Filters \ PlainFilters }
    \cup
    { [table |-> Ident("T2"), filter |-> f, fields |-> <<"a">>, wildcard |-> FALSE] :
        f \in {NilExpr, gt10} }

NoResult == [kind |-> "none", err |-> "", inputs |-> <<>>]

\* the conjuncts of f that are no conjunct of the filter hint g
residualOf(f, g) ==
    SelectSeq(hintConj(f), LAMBDA c : \A i \in 1..Len(hintConj(g)) : ~Equivalent(hintConj(g)[i], c))

\* walkBuild whose Filter op carries the residual of it.Filter only
leafBuilt_residual(it, r) ==
    /\ inputs' = r.inputs
    /\ latest' = r.latest
    /\ attempts' = r.attempts
    /\ leaves' = Append(leaves,
          [it |-> it, slot |-> r.latest, leaf |-> [orig |-> it.table],
           filterOp |-> IF residualOf(it.filter, r.inputs[r.latest + 1].filter) = <<>>
                        THEN NilExpr
                        ELSE conjoin(residualOf(it.filter, r.inputs[r.latest + 1].filter))])

\* walkBuild after w.put(it) returned r: the Leaf op and, if the leaf has a
\* filter, a Filter op above it carrying it.Filter
leafBuilt(it, r) ==
    /\ inputs' = r.inputs
    /\ latest' = r.latest
    /\ attempts' = r.attempts
    /\ leaves' = Append(leaves, [it |-> it, slot |-> r.latest,
                                 leaf |-> [orig |-> it.table], filterOp |-> it.filter])

\* walkBuild on an IterTable
walkBuildLeaf(it) ==
    /\ pcPlan = "walk"
    /\ Len(leaves) < MaxLeaves
    /\ leafBuilt(it, put(inputs, it))
    /\ UNCHANGED <<pcPlan, fi, outInputs, statLog, cancelReq, result, varsU, varsO, varsE, varsK, varsS>>

\* the environment's Stat(table, hints): deterministic for identical inputs
envStat(table, in) ==
    [k |-> "handle", table |-> table, filter |-> in.filter,
     fields |-> in.fields, allFields |-> in.allFields]

\* mutant of stat: the error of the environment's Stat is dropped
stat_swallow(in, envOk) ==
    IF in.handle # NilHandle
    THEN [th |-> in.handle, called |-> FALSE, err |-> FALSE, input |-> in]
    ELSE IF ~envOk
         THEN [th |-> NilHandle, called |-> TRUE, err |-> FALSE, input |-> in]
         ELSE [th |-> envStat(in.table, in), called |-> TRUE, err |-> FALSE,
               input |-> [in EXCEPT !.handle = envStat(in.table, in)]]

\* input.stat(env): the handle, whether Stat was called, whether it failed
stat(in, envOk) ==
    IF in.handle # NilHandle
    THEN [th |-> in.handle, called |-> FALSE, err |-> FALSE, input |-> in]
    ELSE IF ~envOk
         THEN [th |-> NilHandle, called |-> TRUE, err |-> TRUE, input |-> in]
         ELSE [th |-> envStat(in.table, in), called |-> TRUE, err |-> FALSE,
               input |-> [in EXCEPT !.handle = envStat(in.table, in)]]

\* toTree after w.toNode: enters walker.finish; no inputs -> (nil, nil)
finishBegin ==
    /\ pcPlan = "walk"
    /\ IF inputs = <<>>
       THEN /\ pcPlan' = "done"
            /\ result' = [kind |-> "tree", err |-> "", inputs |-> <<>>]
            /\ UNCHANGED <<fi, outInputs>>
       ELSE /\ pcPlan' = "finish"
            /\ fi' = 1
            /\ outInputs' = <<>>
            /\ UNCHANGED result
    /\ UNCHANGED <<inputs, latest, leaves, attempts, statLog, cancelReq, varsU, varsO, varsE, varsK, varsS>>

\* mutant of finishErr: the inputs filled so far are returned with the error
finishErr_partial(out) == [kind |-> "error", err |-> "stat", inputs |-> out]

\* walker.finish on a failing input: return nil, err
finishErr(out) == [kind |-> "error", err |-> "stat", inputs |-> <<>>]

\* the loop body of walker.finish after w.inputs[i].finish(env) returned st
finished(st, out) ==
    /\ statLog' = IF st.called
                  THEN Append(statLog, [slot |-> fi, hints |-> inputs[fi], ok |-> ~st.err])
                  ELSE statLog
    /\ inputs' = [inputs EXCEPT ![fi] = st.input]
    /\ IF st.err
       THEN /\ pcPlan' = "done"
            /\ result' = finishErr(out)
            /\ UNCHANGED <<fi, outInputs>>
       ELSE IF fi = Len(inputs)
       THEN /\ pcPlan' = "done"
            /\ result' = [kind |-> "tree", err |-> "", inputs |-> out]
            /\ outInputs' = out
            /\ UNCHANGED fi
       ELSE /\ fi' = fi + 1
            /\ outInputs' = out
            /\ UNCHANGED <<pcPlan, result>>

\* input.finish(env): Input{Table: i.table, Handle: th}
inputFinish(in, st) == [table |-> in.table, handle |-> st.th]

\* one iteration of the loop of walker.finish: w.inputs[i].finish(env)
finishStep(envOk) ==
    /\ pcPlan = "finish"
    /\ finished(stat(inputs[fi], envOk),
                Append(outInputs, inputFinish(inputs[fi], stat(inputs[fi], envOk))))
    /\ UNCHANGED <<latest, leaves, attempts, cancelReq, varsU, varsO, varsE, varsK, varsS>>

\* the caller asks for the planning to be cancelled; New, NewSplit and toTree
\* take no context or token, so nothing of the planner reads the request
requestCancel ==
    /\ pcPlan # "done"
    /\ cancelReq = "no"
    /\ cancelReq' = pcPlan
    /\ UNCHANGED <<inputs, latest, leaves, attempts, pcPlan, fi, outInputs, statLog, result, varsU, varsO, varsE, varsK, varsS>>

NextPlan ==
    \/ \E it \in IterTables : walkBuildLeaf(it)
    \/ finishBegin
    \/ \E envOk \in BOOLEAN : finishStep(envOk)
    \/ requestCancel

(***************************************************************************)
(* pir: fixedPointOptimizer                                                *)
(***************************************************************************)
StepIds == 1..(2 * MaxChain + 1)

\* the steps a trace is built from, top first; every trace ends in an IterTable
StepKinds == { [type |-> "*pir.Filter", val |-> 0], [type |-> "*pir.Filter", val |-> 1],
               [type |-> "*pir.Bind", val |-> 0],
               [type |-> "*pir.Limit", val |-> 0] }
Chains == UNION { [1..n -> StepKinds] : n \in 1..MaxChain }

FreeStep == [alloc |-> FALSE, type |-> "", val |-> 0, parent |-> Nil]

\* the heap holding chain c above its leaf: step i has parent i + 1
heapOf(c) ==
    [id \in StepIds |->
        IF id <= Len(c)
        THEN [alloc |-> TRUE, type |-> c[id].type, val |-> c[id].val, parent |-> id + 1]
        ELSE IF id = Len(c) + 1
        THEN [alloc |-> TRUE, type |-> "*pir.IterTable", val |-> 0, parent |-> Nil]
        ELSE FreeStep]

\* the rewriting rules offered for registration, and the type T of each
\* rule's parameter (*T) -> (Step, fpoStatus)
RuleNames == { "filterSimplify", "filterMerge", "filterElim", "bindDropFilter",
               "limitZero", "bindSpin" }
ruleType(r) ==
    CASE r \in {"filterSimplify", "filterMerge", "filterElim"} -> "*pir.Filter"
      [] r \in {"bindDropFilter", "bindSpin"} -> "*pir.Bind"
      [] r = "limitZero" -> "*pir.Limit"
StepTypes == { "*pir.Filter", "*pir.Bind", "*pir.Limit", "*pir.IterTable", "*pir.NoOutput" }

newStepId(heap) == CHOOSE id \in StepIds :
                      ~heap[id].alloc /\ \A m \in StepIds : ~heap[m].alloc => id <= m
Max(a, b) == IF a > b THEN a ELSE b
Min(a, b) == IF a < b THEN a ELSE b

\* one rule called on step id: the returned (Step, fpoStatus) and the heap
\* after the call. A rule that does not apply returns (nil, fpoIntact).
ruleCall(r, heap, id) ==
    LET st == heap[id]
        par == st.parent
        intact == [n |-> Nil, status |-> "fpoIntact", heap |-> heap]
    IN CASE r = "filterSimplify" ->
              \* simplifies the predicate in place, one level at a time
              IF st.val > 0
              THEN [n |-> id, status |-> "fpoUpdate", heap |-> [heap EXCEPT ![id].val = @ - 1]]
              ELSE intact
         [] r = "filterMerge" ->
              \* merges the Filter below into this one and unlinks it
              IF par # Nil /\ heap[par].type = "*pir.Filter"
              THEN [n |-> id, status |-> "fpoUpdate",
                    heap |-> [heap EXCEPT ![id].val = Max(@, heap[par].val),
                                          ![id].parent = heap[par].parent]]
              ELSE intact
         [] r = "filterElim" ->
              \* a Filter that is always true is replaced by its parent
              IF st.val = 0 /\ par # Nil
              THEN [n |-> par, status |-> "fpoReplace", heap |-> heap]
              ELSE intact
         [] r = "bindDropFilter" ->
              \* unlinks an always-true Filter from below a Bind
              IF par # Nil /\ heap[par].type = "*pir.Filter" /\ heap[par].val = 0
              THEN [n |-> id, status |-> "fpoUpdate",
                    heap |-> [heap EXCEPT ![id].parent = heap[par].parent]]
              ELSE intact
         [] r = "limitZero" ->
              \* LIMIT 0 is replaced by a new NoOutput step
              IF st.val = 0
              THEN LET n == newStepId(heap)
                   IN [n |-> n, status |-> "fpoReplace",
                       heap |-> [heap EXCEPT ![n] = [alloc |-> TRUE, type |-> "*pir.NoOutput",
                                                     val |-> 0, parent |-> Nil]]]
              ELSE intact
         [] r = "bindSpin" ->
              \* a rule that rewrites its step on every call
              [n |-> id, status |-> "fpoUpdate", heap |-> [heap EXCEPT ![id].val = 1 - @]]

\* mutant of add: the rule is put in front of the rules of its type
add_prepend(rs, r) == [rs EXCEPT ![ruleType(r)] = <<r>> \o @]

\* fixedPointOptimizer.add: fpo.rules[name] = append(fpo.rules[name], rule)
add(rs, r) == [rs EXCEPT ![ruleType(r)] = Append(@, r)]

\* the loop of apply over rules[k..]: the first status that is not
\* fpoIntact ends it
RECURSIVE applyFrom(_, _, _, _, _)
applyFrom(rl, k, heap, id, invoked) ==
    IF k > Len(rl)
    THEN [n |-> Nil, status |-> "fpoIntact", heap |-> heap, invoked |-> invoked]
    ELSE LET out == ruleCall(rl[k], heap, id)
         IN IF out.status # "fpoIntact"
            THEN [n |-> out.n, status |-> out.status, heap |-> out.heap,
                  invoked |-> Append(invoked, rl[k])]
            ELSE applyFrom(rl, k + 1, out.heap, id, Append(invoked, rl[k]))

\* fixedPointOptimizer.apply(s)
apply(rs, heap, id) == applyFrom(rs[heap[id].type], 1, heap, id, <<>>)

\* mutant of changedBy: case fpoUpdate does not set somethingChanged
changedBy_noUpdate(status, somethingChanged) ==
    IF status = "fpoReplace" THEN TRUE ELSE somethingChanged

\* mutant of changedBy: a pass that rewrote nothing asks for another pass
changedBy_always(status, somethingChanged) == TRUE

\* the switch of optimize on the status: whether something changed
changedBy(status, somethingChanged) ==
    IF status = "fpoIntact" THEN somethingChanged ELSE TRUE

NoRules == [t \in StepTypes |-> <<>>]
FpoStart == [pc |-> "add", s |-> Nil, prev |-> Nil, somethingChanged |-> TRUE]
NoApply == [heap |-> <<>>, s |-> Nil, invoked |-> <<>>, status |-> "fpoIntact", n |-> Nil]

\* newFixedPointOptimizer(rules...) / add(rule), before optimize is called
fpoAdd(r) ==
    /\ fpo.pc = "add"
    /\ Len(regLog) < MaxRules
    /\ \A i \in 1..Len(regLog) : regLog[i] # r
    /\ rules' = add(rules, r)
    /\ regLog' = Append(regLog, r)
    /\ UNCHANGED <<steps, top, fpo, lastApply, intactSeen, passes, varsU, varsP, varsE, varsK, varsS>>

\* optimize(b) is called: for somethingChanged := true; ...
optimizeCall ==
    /\ fpo.pc = "add"
    /\ fpo' = [fpo EXCEPT !.pc = "pass", !.somethingChanged = TRUE]
    /\ UNCHANGED <<steps, top, rules, regLog, lastApply, intactSeen, passes, varsU, varsP, varsE, varsK, varsS>>

\* the head of the outer loop: another pass from b.top, or return
optimizePass ==
    /\ fpo.pc = "pass"
    /\ IF fpo.somethingChanged
       THEN /\ fpo' = [pc |-> "walk", s |-> top, prev |-> Nil, somethingChanged |-> FALSE]
            /\ intactSeen' = <<>>
            /\ passes' = Min(passes + 1, PassCap)
       ELSE /\ fpo' = [fpo EXCEPT !.pc = "done"]
            /\ UNCHANGED <<intactSeen, passes>>
    /\ UNCHANGED <<steps, top, rules, regLog, lastApply, varsU, varsP, varsE, varsK, varsS>>

\* variants of the inner loop's switch: v = "relinkTop" installs every
\* replacement as b.top, v = "advance" moves on after fpoUpdate
optimizeStepVariant(v) ==
    /\ fpo.pc = "walk"
    /\ IF fpo.s = Nil
       THEN /\ fpo' = [fpo EXCEPT !.pc = "pass"]
            /\ UNCHANGED <<steps, top, lastApply, intactSeen>>
       ELSE LET r == apply(rules, steps, fpo.s)
                sc == changedBy(r.status, fpo.somethingChanged)
            IN /\ lastApply' = [heap |-> steps, s |-> fpo.s, invoked |-> r.invoked,
                                status |-> r.status, n |-> r.n]
               /\ CASE r.status = "fpoUpdate" ->
                         /\ steps' = r.heap
                         /\ fpo' = IF v = "advance"
                                   THEN [fpo EXCEPT !.somethingChanged = sc,
                                                    !.prev = fpo.s, !.s = r.heap[fpo.s].parent]
                                   ELSE [fpo EXCEPT !.somethingChanged = sc]
                         /\ UNCHANGED <<top, intactSeen>>
                    [] r.status = "fpoReplace" ->
                         /\ IF fpo.prev # Nil /\ v # "relinkTop"
                            THEN /\ steps' = [r.heap EXCEPT ![fpo.prev].parent = r.n]
                                 /\ UNCHANGED top
                            ELSE /\ steps' = r.heap
                                 /\ top' = r.n
                         /\ fpo' = [fpo EXCEPT !.somethingChanged = sc, !.s = r.n]
                         /\ UNCHANGED intactSeen
                    [] r.status = "fpoIntact" ->
                         /\ steps' = r.heap
                         /\ fpo' = [fpo EXCEPT !.somethingChanged = sc,
                                               !.prev = fpo.s, !.s = steps[fpo.s].parent]
                         /\ intactSeen' = Append(intactSeen, fpo.s)
                         /\ UNCHANGED top
    /\ UNCHANGED <<rules, regLog, passes, varsU, varsP, varsE, varsK, varsS>>

\* mutant of optimizeStep: case fpoReplace always sets b.top = n
optimizeStep_relinkTop == optimizeStepVariant("relinkTop")

\* mutant of optimizeStep: case fpoUpdate does prev = s; s = s.parent()
optimizeStep_advance == optimizeStepVariant("advance")

\* one iteration of the inner loop: n, status := fpo.apply(s); switch status
optimizeStep ==
    /\ fpo.pc = "walk"
    /\ IF fpo.s = Nil
       THEN /\ fpo' = [fpo EXCEPT !.pc = "pass"]
            /\ UNCHANGED <<steps, top, lastApply, intactSeen>>
       ELSE LET r == apply(rules, steps, fpo.s)
                sc == changedBy(r.status, fpo.somethingChanged)
            IN /\ lastApply' = [heap |-> steps, s |-> fpo.s, invoked |-> r.invoked,
                                status |-> r.status, n |-> r.n]
               /\ CASE r.status = "fpoUpdate" ->
                         /\ steps' = r.heap
                         /\ fpo' = [fpo EXCEPT !.somethingChanged = sc]
                         /\ UNCHANGED <<top, intactSeen>>
                    [] r.status = "fpoReplace" ->
                         /\ IF fpo.prev # Nil
                            THEN /\ steps' = [r.heap EXCEPT ![fpo.prev].parent = r.n]
                                 /\ UNCHANGED top
                            ELSE /\ steps' = r.heap
                                 /\ top' = r.n
                         /\ fpo' = [fpo EXCEPT !.somethingChanged = sc, !.s = r.n]
                         /\ UNCHANGED intactSeen
                    [] r.status = "fpoIntact" ->
                         /\ steps' = r.heap
                         /\ fpo' = [fpo EXCEPT !.somethingChanged = sc,
                                               !.prev = fpo.s, !.s = steps[fpo.s].parent]
                         /\ intactSeen' = Append(intactSeen, fpo.s)
                         /\ UNCHANGED top
    /\ UNCHANGED <<rules, regLog, passes, varsU, varsP, varsE, varsK, varsS>>

NextOpt ==
    \/ \E r \in RuleNames : fpoAdd(r)
    \/ optimizeCall
    \/ optimizePass
    \/ optimizeStep

(***************************************************************************)
(* calls of the functions of expr and of conjunctions                      *)
(***************************************************************************)
\* 2^53 + n
Two53(n) == Num(1, n, 1)

\* the numeric literals compared
NumLits == { Integer(I(0)), Integer(I(10)), Integer(Two53(0)), Integer(Two53(1)),
             Float(I(0)), Float(I(10)), Float(Num(0, 1, 2)), Float(Num(0, 1, 3)),
             Float(Two53(0)), Float(NaNval),
             Rational(I(0)), Rational(I(10)), Rational(Num(0, 1, 2)), Rational(Num(0, 1, 3)) }

\* the AST nodes encoded and decoded: the terminals, every variant over the
\* terminals, and the Aggregates
LeafNodes == { Bool(TRUE), String("x"), Null, Star, Missing, Ident("a"), Timestamp(1),
               Integer(I(0)), Float(Num(0, 1, 2)), Float(NaNval), Rational(Num(0, 1, 3)) }
AggNodes == { Aggregate(op, pr, in, ov, fl) :
                op \in {"count", "approx_count_distinct", "row_number"},
                pr \in {0, 11},
                in \in {NilExpr, Star, Ident("a")},
                ov \in {NoWindow, Window(<<>>), Window(<<Ident("a")>>)},
                fl \in {NilExpr, Compare("<", Ident("a"), Integer(I(0)))} }
Nodes == LeafNodes
         \cup { Dot(l, "b") : l \in LeafNodes } \cup { Index(l, 0) : l \in LeafNodes }
         \cup { Not(l) : l \in LeafNodes }
         \cup { Compare("<", l, m) : l, m \in LeafNodes }
         \cup { And(l, m) : l, m \in LeafNodes }
         \cup AggNodes

\* the expressions given to IsPath and FlatPath: k operators deep
RECURSIVE pathsOf(_)
pathsOf(k) ==
    IF k = 0 THEN { Ident("a"), Ident("b"), Integer(I(0)) }
    ELSE pathsOf(k - 1)
         \cup { Dot(p, f) : p \in pathsOf(k - 1), f \in {"x", "y"} }
         \cup { Index(p, 0) : p \in pathsOf(k - 1) }

\* the expressions given to conjunctions: ANDs nested k deep
RECURSIVE nestedAnds(_)
nestedAnds(k) ==
    IF k = 0 THEN { Compare(">", Ident("a"), Integer(I(10))),
                    Compare("<", Ident("b"), Integer(I(5))),
                    Or(Compare(">", Ident("a"), Integer(I(10))),
                       Compare("<", Ident("b"), Integer(I(5)))) }
    ELSE nestedAnds(k - 1) \cup { And(x, y) : x, y \in nestedAnds(k - 1) }

ExprArgs ==
    { [f |-> "Decode", n |-> n] : n \in Nodes }
    \cup { [f |-> "Equivalent", a |-> a, b |-> b, c |-> c] : a, b, c \in NumLits }
    \cup { [f |-> "FlatPath", e |-> e] : e \in pathsOf(MaxPath) }
    \cup { [f |-> "conjunctions", e |-> e] : e \in nestedAnds(MaxNest) }

\* Decode of the bytes Encode wrote
callDecode ==
    /\ pcCall = "idle" /\ arg.f = "Decode"
    /\ ret' = [f |-> "Decode", node |-> Decode(Encode(arg.n))]
    /\ pcCall' = "done"
    /\ UNCHANGED <<arg, varsU, varsP, varsO, varsK, varsS>>

\* Equivalent on each ordered pair of three literals
callEquivalent ==
    /\ pcCall = "idle" /\ arg.f = "Equivalent"
    /\ ret' = [f |-> "Equivalent",
               ab |-> Equivalent(arg.a, arg.b), ba |-> Equivalent(arg.b, arg.a),
               bc |-> Equivalent(arg.b, arg.c), ac |-> Equivalent(arg.a, arg.c)]
    /\ pcCall' = "done"
    /\ UNCHANGED <<arg, varsU, varsP, varsO, varsK, varsS>>

\* IsPath, FlatPath, and MakePath of what FlatPath returned
callFlatPath ==
    /\ pcCall = "idle" /\ arg.f = "FlatPath"
    /\ ret' = [f |-> "FlatPath", isPath |-> IsPath(arg.e), flat |-> FlatPath(arg.e),
               made |-> IF FlatPath(arg.e).ok THEN MakePath(FlatPath(arg.e).fields)
                        ELSE NilExpr]
    /\ pcCall' = "done"
    /\ UNCHANGED <<arg, varsU, varsP, varsO, varsK, varsS>>

callConjunctions ==
    /\ pcCall = "idle" /\ arg.f = "conjunctions"
    /\ ret' = [f |-> "conjunctions", lst |-> conjunctions(arg.e, <<>>)]
    /\ pcCall' = "done"
    /\ UNCHANGED <<arg, varsU, varsP, varsO, varsK, varsS>>

NextExpr ==
    \/ callDecode
    \/ callEquivalent
    \/ callFlatPath
    \/ callConjunctions

\* The parts do not interact: each specification starts the others
\* in their initial state and leaves them there.

\* newRandomTreeUnifier(), with the hash function of the process
InitUnify ==
    /\ hashOf \in HashFns
    /\ root = Nil /\ nodes = NoNodes /\ thr = [t \in Threads |-> IdleThread] /\ rets = NoRets
    /\ inputs = <<>> /\ latest = -1 /\ leaves = <<>> /\ attempts = <<>>
    /\ pcPlan = "walk" /\ fi = 0 /\ outInputs = <<>> /\ statLog = <<>>
    /\ cancelReq = "no" /\ result = NoResult
    /\ steps = [id \in StepIds |-> FreeStep] /\ top = Nil /\ rules = NoRules
    /\ regLog = <<>> /\ fpo = FpoStart /\ lastApply = NoApply
    /\ intactSeen = <<>> /\ passes = 0
    /\ arg = NoArg /\ pcCall = "idle" /\ ret = NoRet
    /\ kern = NoKernels /\ downRows = NoRows /\ fieldsSeen = {}
    /\ idxSink = NewIndexSink /\ closer = NoClosers

\* toTree: w := walker{latest: -1}; t := &Tree{}
InitPlan ==
    /\ hashOf = [d \in Strings |-> 7]
    /\ root = Nil /\ nodes = NoNodes /\ thr = [t \in Threads |-> IdleThread] /\ rets = NoRets
    /\ inputs = <<>> /\ latest = -1 /\ leaves = <<>> /\ attempts = <<>>
    /\ pcPlan = "walk" /\ fi = 0 /\ outInputs = <<>> /\ statLog = <<>>
    /\ cancelReq = "no" /\ result = NoResult
    /\ steps = [id \in StepIds |-> FreeStep] /\ top = Nil /\ rules = NoRules
    /\ regLog = <<>> /\ fpo = FpoStart /\ lastApply = NoApply
    /\ intactSeen = <<>> /\ passes = 0
    /\ arg = NoArg /\ pcCall = "idle" /\ ret = NoRet
    /\ kern = NoKernels /\ downRows = NoRows /\ fieldsSeen = {}
    /\ idxSink = NewIndexSink /\ closer = NoClosers

\* newFixedPointOptimizer() and a Trace whose top is step 1
InitOptimize ==
    /\ hashOf = [d \in Strings |-> 7]
    /\ root = Nil /\ nodes = NoNodes /\ thr = [t \in Threads |-> IdleThread] /\ rets = NoRets
    /\ inputs = <<>> /\ latest = -1 /\ leaves = <<>> /\ attempts = <<>>
    /\ pcPlan = "walk" /\ fi = 0 /\ outInputs = <<>> /\ statLog = <<>>
    /\ cancelReq = "no" /\ result = NoResult
    /\ steps \in { heapOf(c) : c \in Chains } /\ top = 1 /\ rules = NoRules
    /\ regLog = <<>> /\ fpo = FpoStart /\ lastApply = NoApply
    /\ intactSeen = <<>> /\ passes = 0
    /\ arg = NoArg /\ pcCall = "idle" /\ ret = NoRet
    /\ kern = NoKernels /\ downRows = NoRows /\ fieldsSeen = {}
    /\ idxSink = NewIndexSink /\ closer = NoClosers

\* one call of a function of expr on arguments of the catalogue
InitExpr ==
    /\ hashOf = [d \in Strings |-> 7]
    /\ root = Nil /\ nodes = NoNodes /\ thr = [t \in Threads |-> IdleThread] /\ rets = NoRets
    /\ inputs = <<>> /\ latest = -1 /\ leaves = <<>> /\ attempts = <<>>
    /\ pcPlan = "walk" /\ fi = 0 /\ outInputs = <<>> /\ statLog = <<>>
    /\ cancelReq = "no" /\ result = NoResult
    /\ steps = [id \in StepIds |-> FreeStep] /\ top = Nil /\ rules = NoRules
    /\ regLog = <<>> /\ fpo = FpoStart /\ lastApply = NoApply
    /\ intactSeen = <<>> /\ passes = 0
    /\ arg \in ExprArgs /\ pcCall = "idle" /\ ret = NoRet
    /\ kern = NoKernels /\ downRows = NoRows /\ fieldsSeen = {}
    /\ idxSink = NewIndexSink /\ closer = NoClosers

(***************************************************************************)
(* plan lowering: the Limit, Distinct, Aggregate and Order steps           *)
(***************************************************************************)
MaxKeys == 2

NilOp == [op |-> "nil"]
LeafOp == [op |-> "Leaf"]
NoOutput == [op |-> "NoOutput"]
NoErr == [kind |-> "nil"]
\* a nil []expr.Binding (no step carries an empty slice that is not nil)
NilBindings == <<>>

\* (op, nil)
okOp(o) == [ok |-> TRUE, panic |-> FALSE, err |-> NoErr, op |-> o]
\* (nil, reject(msg)): an ErrNotSupported error
reject(msg) ==
    [ok |-> FALSE, panic |-> FALSE, err |-> [kind |-> "ErrNotSupported", msg |-> msg],
     op |-> NilOp]
\* a run-time panic of the lowering goroutine
panicked == [ok |-> FALSE, panic |-> TRUE, err |-> NoErr, op |-> NilOp]

lowerDistinct(in, from) ==
    okOp([op |-> "Distinct", from |-> from, fields |-> in.columns, limit |-> 0])

\* lowerLimit whose hash aggregate takes the offset as its order-by does
lowerLimit_offsetAnywhere(in, from) ==
    IF in.count = 0 THEN okOp(NoOutput)
    ELSE IF from.op \in {"HashAggregate", "Distinct"}
    THEN okOp([from EXCEPT !.limit = in.count])
    ELSE IF from.op = "OrderBy"
    THEN okOp([from EXCEPT !.limit = in.count, !.offset = in.offset])
    ELSE okOp([op |-> "Limit", from |-> from, num |-> in.count])

lowerLimit(in, from) ==
    IF in.count = 0 THEN okOp(NoOutput)
    ELSE CASE from.op = "HashAggregate" ->
                 IF in.offset # 0
                 THEN reject("non-zero OFFSET of hash aggregate result")
                 ELSE okOp([from EXCEPT !.limit = in.count])
           [] from.op = "OrderBy" ->
                 okOp([from EXCEPT !.limit = in.count, !.offset = in.offset])
           [] from.op = "Distinct" ->
                 IF in.offset # 0
                 THEN reject("non-zero OFFSET of distinct result")
                 ELSE okOp([from EXCEPT !.limit = in.count])
           [] OTHER ->
                 IF in.offset # 0
                 THEN reject("OFFSET without GROUP BY/ORDER BY not implemented")
                 ELSE okOp([op |-> "Limit", from |-> from, num |-> in.count])

\* the op beneath after lowerLimit: a hash aggregate has its Limit set before
\* the offset is looked at
fromAfterLimit(in, from) ==
    IF in.count # 0 /\ from.op = "HashAggregate" THEN [from EXCEPT !.limit = in.count]
    ELSE IF in.count # 0 /\ from.op = "OrderBy"
    THEN [from EXCEPT !.limit = in.count, !.offset = in.offset]
    ELSE IF in.count # 0 /\ from.op = "Distinct" /\ in.offset = 0
    THEN [from EXCEPT !.limit = in.count]
    ELSE from

iscountstar(a) ==
    /\ Len(a) = 1
    /\ a[1].expr.op = "count"
    /\ a[1].expr.filter = NilExpr
    /\ a[1].expr.inner.k = "star"

WindowOnly(op) == op \in {"row_number", "rank", "dense_rank"}

\* the loop of splitWindows from element i on
RECURSIVE splitLoop(_, _, _, _)
splitLoop(i, lst, agg, window) ==
    IF i > Len(lst) THEN [agg |-> agg, window |-> window]
    ELSE IF WindowOnly(lst[i].expr.op)
    THEN splitLoop(i + 1, lst, agg, Append(window, lst[i]))
    ELSE splitLoop(i + 1, lst, Append(agg, lst[i]), window)

\* splitWindows with the window aggregates put in front of each other
splitWindows_reverse(lst) ==
    [agg |-> splitLoop(1, lst, <<>>, <<>>).agg,
     window |-> [i \in 1..Len(splitLoop(1, lst, <<>>, <<>>).window) |->
                   splitLoop(1, lst, <<>>, <<>>).window[
                       Len(splitLoop(1, lst, <<>>, <<>>).window) + 1 - i]]]

splitWindows(lst) == splitLoop(1, lst, <<>>, <<>>)

hashAggregateOf(in, from, s) ==
    [op |-> "HashAggregate", from |-> from, agg |-> s.agg, windows |-> s.window,
     by |-> in.groupBy, orderBy |-> <<>>, limit |-> 0]

lowerAggregate(in, from) ==
    IF in.groupBy = NilBindings
    THEN IF iscountstar(in.agg)
         THEN okOp([op |-> "CountStar", from |-> from, as |-> in.agg[1].result])
         ELSE okOp([op |-> "SimpleAggregate", from |-> from, outputs |-> in.agg])
    ELSE okOp(hashAggregateOf(in, from, splitWindows(in.agg)))

makeOrdering(node) ==
    [direction |-> IF node.desc THEN "SortDescending" ELSE "SortAscending",
     nullsOrder |-> IF node.nullsLast THEN "SortNullsLast" ELSE "SortNullsFirst"]

\* expr.IsIdentifier(e, s): e == Ident(s)
IsIdentifier(e, s) == sameNode(e, Ident(s))

minCol(S) == IF S = {} THEN 0 ELSE CHOOSE c \in S : \A d \in S : c <= d
\* the first col of ha.Agg, of ha.By, whose result is named by ex (1-based,
\* 0 if none)
aggCol(ex, ha) == minCol({ c \in 1..Len(ha.agg) : IsIdentifier(ex, ha.agg[c].result) })
byCol(ex, ha) == minCol({ c \in 1..Len(ha.by) : IsIdentifier(ex, ha.by[c].result) })

withOrder(ha, column, node) ==
    [ha EXCEPT !.orderBy = Append(ha.orderBy,
                              [column |-> column, ordering |-> makeOrdering(node)])]

\* the loop over ha.Windows for the sort key i (1-based): its condition reads
\* ha.Windows[i], the entry at the index of the sort key, on every iteration
windowsLoop(i, in, ha) ==
    IF Len(ha.windows) = 0 THEN [k |-> "slowpath", ha |-> ha]
    ELSE IF i > Len(ha.windows) THEN [k |-> "panic", ha |-> ha]
    ELSE IF IsIdentifier(in.columns[i].column, ha.windows[i].result)
    THEN [k |-> "next",
          ha |-> withOrder(ha, Len(ha.agg) + Len(ha.by) + 0, in.columns[i])]
    ELSE [k |-> "slowpath", ha |-> ha]

\* one iteration of the loop labelled outer, for the sort key i
outerStep(i, in, ha) ==
    IF aggCol(in.columns[i].column, ha) # 0
    THEN [k |-> "next",
          ha |-> withOrder(ha, aggCol(in.columns[i].column, ha) - 1, in.columns[i])]
    ELSE IF byCol(in.columns[i].column, ha) # 0
    THEN [k |-> "next",
          ha |-> withOrder(ha, Len(ha.agg) + byCol(in.columns[i].column, ha) - 1,
                           in.columns[i])]
    ELSE windowsLoop(i, in, ha)

RECURSIVE outerLoop(_, _, _)
outerNext(i, in, r) == IF r.k = "next" THEN outerLoop(i + 1, in, r.ha) ELSE r
outerLoop(i, in, ha) ==
    IF i > Len(in.columns) THEN [k |-> "return", ha |-> ha]
    ELSE outerNext(i, in, outerStep(i, in, ha))

isConstantColumn(e) == e.k \in {"bool", "int", "rat", "float", "string"}

sortColumns(in) ==
    LET kept == SelectSeq(in.columns, LAMBDA c : ~isConstantColumn(c.column))
    IN [i \in 1..Len(kept) |-> [node |-> kept[i].column, ordering |-> makeOrdering(kept[i])]]

duplicateAt(columns) ==
    { p \in (1..Len(columns)) \X (1..Len(columns)) :
        p[1] < p[2] /\ Equivalent(columns[p[1]].node, columns[p[2]].node) }

\* the first pair (i, j) the nested loops find
firstDuplicate(columns) ==
    CHOOSE p \in duplicateAt(columns) :
        \A q \in duplicateAt(columns) : p[1] < q[1] \/ (p[1] = q[1] /\ p[2] <= q[2])

duplicateError(node) ==
    [ok |-> FALSE, panic |-> FALSE,
     err |-> [kind |-> "errorf", msg |-> "duplicate order by expression", node |-> node],
     op |-> NilOp]

\* the code from the label slowpath on, given the sort columns
slowpathWith(columns, from) ==
    IF Len(columns) = 0 THEN okOp(from)
    ELSE IF duplicateAt(columns) # {}
    THEN duplicateError(columns[firstDuplicate(columns)[2]].node)
    ELSE okOp([op |-> "OrderBy", from |-> from, columns |-> columns,
               limit |-> 0, offset |-> 0])

slowpath(in, from) == slowpathWith(sortColumns(in), from)

afterOuter(in, r) ==
    CASE r.k = "return" -> okOp(r.ha)
      [] r.k = "panic" -> panicked
      [] OTHER -> slowpath(in, r.ha)

\* lowerOrder whose hash aggregate path looks for duplicate sort keys first
lowerOrder_checked(in, from) ==
    IF duplicateAt(sortColumns(in)) # {} THEN slowpath(in, from)
    ELSE IF from.op = "HashAggregate" THEN afterOuter(in, outerLoop(1, in, from))
    ELSE slowpath(in, from)

lowerOrder(in, from) ==
    IF from.op = "HashAggregate" THEN afterOuter(in, outerLoop(1, in, from))
    ELSE slowpath(in, from)

(***************************************************************************)
(* calls of the lowering functions                                         *)
(***************************************************************************)
countStar == [expr |-> Aggregate("count", 0, Star, NoWindow, NilExpr), result |-> "c"]
countStarFilter ==
    [expr |-> Aggregate("count", 0, Star, NoWindow, Compare("<", Ident("a"), Integer(I(5)))),
     result |-> "c"]
sumA == [expr |-> Aggregate("sum", 0, Ident("a"), NoWindow, NilExpr), result |-> "s"]
rowNumber ==
    [expr |-> Aggregate("row_number", 0, NilExpr, Window(<<Ident("g")>>), NilExpr),
     result |-> "r"]
rank ==
    [expr |-> Aggregate("rank", 0, NilExpr, Window(<<Ident("g")>>), NilExpr),
     result |-> "k"]

\* the pir.Aggregate steps
AggLists == { <<countStar>>, <<countStarFilter>>, <<sumA>>, <<countStar, sumA>>,
              <<rowNumber>>, <<sumA, rowNumber>>, <<rowNumber, sumA, rank>>,
              <<rank, rowNumber, countStar>> }
GroupBys == { NilBindings, <<[expr |-> Ident("g"), result |-> "g"]>>,
              <<[expr |-> Ident("g"), result |-> "g"], [expr |-> Ident("x"), result |-> "h"]>> }
AggSteps == { [agg |-> a, groupBy |-> g] : a \in AggLists, g \in GroupBys }

\* the sort keys of the pir.Order steps
OrderKeys ==
    { [column |-> e, desc |-> FALSE, nullsLast |-> FALSE] :
        e \in { Ident("c"), Ident("s"), Ident("g"), Ident("h"), Ident("r"), Ident("k"),
                Ident("z"), Integer(I(1)), Float(I(1)), String("x") } }
    \cup { [column |-> e, desc |-> TRUE, nullsLast |-> TRUE] : e \in { Ident("c"), Ident("z") } }
RECURSIVE keyLists(_)
keyLists(n) ==
    IF n = 0 THEN { <<>> }
    ELSE keyLists(n - 1)
         \cup { Append(l, k) : l \in { m \in keyLists(n - 1) : Len(m) = n - 1 }, k \in OrderKeys }
OrderSteps == { [columns |-> l] : l \in keyLists(MaxKeys) \ { <<>> } }

LimitSteps == { [count |-> c, offset |-> o] : c \in {0, 1, 5}, o \in {0, 2} }

\* the ops an Order step can be above
OrderFroms ==
    { LeafOp, lowerDistinct([columns |-> <<Ident("a")>>], LeafOp).op }
    \cup { lowerAggregate(s, LeafOp).op : s \in AggSteps }
\* the ops a Limit step can be above
LimitFroms ==
    OrderFroms
    \cup { lowerOrder([columns |-> <<k>>], LeafOp).op :
             k \in { o \in OrderKeys : o.column \in {Ident("c"), Ident("z")} } }
    \cup { lowerOrder([columns |-> <<k>>], lowerAggregate(s, LeafOp).op).op :
             k \in { o \in OrderKeys : o.column = Ident("c") },
             s \in { t \in AggSteps : t.agg = <<countStar, sumA>> } }

LowerArgs ==
    { [f |-> "lowerLimit", in |-> s, from |-> o] : s \in LimitSteps, o \in LimitFroms }
    \cup { [f |-> "lowerAggregate", in |-> s, from |-> LeafOp] : s \in AggSteps }
    \cup { [f |-> "lowerOrder", in |-> s, from |-> o] : s \in OrderSteps, o \in OrderFroms }

callLowerLimit ==
    /\ pcCall = "idle" /\ arg.f = "lowerLimit"
    /\ ret' = [f |-> "lowerLimit", r |-> lowerLimit(arg.in, arg.from),
               from |-> fromAfterLimit(arg.in, arg.from)]
    /\ pcCall' = "done"
    /\ UNCHANGED <<arg, varsU, varsP, varsO, varsK, varsS>>

callLowerAggregate ==
    /\ pcCall = "idle" /\ arg.f = "lowerAggregate"
    /\ ret' = [f |-> "lowerAggregate", r |-> lowerAggregate(arg.in, arg.from)]
    /\ pcCall' = "done"
    /\ UNCHANGED <<arg, varsU, varsP, varsO, varsK, varsS>>

callLowerOrder ==
    /\ pcCall = "idle" /\ arg.f = "lowerOrder"
    /\ ret' = [f |-> "lowerOrder", r |-> lowerOrder(arg.in, arg.from)]
    /\ pcCall' = "done"
    /\ UNCHANGED <<arg, varsU, varsP, varsO, varsK, varsS>>

NextLower ==
    \/ callLowerLimit
    \/ callLowerAggregate
    \/ callLowerOrder

\* one call of a lowering function on a step and the op beneath it
InitLower ==
    /\ hashOf = [d \in Strings |-> 7]
    /\ root = Nil /\ nodes = NoNodes /\ thr = [t \in Threads |-> IdleThread] /\ rets = NoRets
    /\ inputs = <<>> /\ latest = -1 /\ leaves = <<>> /\ attempts = <<>>
    /\ pcPlan = "walk" /\ fi = 0 /\ outInputs = <<>> /\ statLog = <<>>
    /\ cancelReq = "no" /\ result = NoResult
    /\ steps = [id \in StepIds |-> FreeStep] /\ top = Nil /\ rules = NoRules
    /\ regLog = <<>> /\ fpo = FpoStart /\ lastApply = NoApply
    /\ intactSeen = <<>> /\ passes = 0
    /\ arg \in LowerArgs /\ pcCall = "idle" /\ ret = NoRet
    /\ kern = NoKernels /\ downRows = NoRows /\ fieldsSeen = {}
    /\ idxSink = NewIndexSink /\ closer = NoClosers

SpecLower == InitLower /\ [][NextLower]_vars

(***************************************************************************)
(* plan lowering: toNode, addReplace, lowerUnionMap, toTree and newTree    *)
(***************************************************************************)
MaxRepl == 2
MaxInnerRepl == 1

\* a pir.Trace as the walk sees it: the terminal step reached by walkBuild
\* (the lowering of the steps above it does not touch the walker), the
\* child trace of a UnionMap, and the Replacements
NoIt == [table |-> NilExpr, filter |-> NilExpr, fields |-> <<>>, wildcard |-> FALSE]
Trace(k, it, child, repl) == [k |-> k, it |-> it, child |-> child, repl |-> repl]

TreeIters ==
    { [table |-> Ident("T1"), filter |-> NilExpr, fields |-> <<"a">>, wildcard |-> FALSE],
      [table |-> Ident("T1"), filter |-> tsLt, fields |-> <<"a", "b">>, wildcard |-> FALSE],
      [table |-> Ident("T2"), filter |-> NilExpr, fields |-> <<"a">>, wildcard |-> FALSE] }
Terminals == { Trace("IterTable", it, <<>>, <<>>) : it \in TreeIters }
                 \cup { Trace("NoOutput", NoIt, <<>>, <<>>) }
replLists(n) == UNION { [1..m -> Terminals] : m \in 0..n }
FlatTraces == { [t EXCEPT !.repl = rl] : t \in Terminals, rl \in replLists(MaxRepl) }
ChildTraces == { [t EXCEPT !.repl = rl] : t \in Terminals, rl \in replLists(MaxInnerRepl) }
\* pir.Split: Inner is the table the child iterates; a child whose iteration
\* was eliminated keeps any table as Inner
UnionTraces ==
    { t \in { Trace("UnionMap", it, <<c>>, rl) :
                c \in ChildTraces, it \in TreeIters, rl \in replLists(MaxInnerRepl) } :
        t.child[1].k = "IterTable" => t.child[1].it = t.it }
Traces == FlatTraces \cup UnionTraces

NewWalker == [inputs |-> <<>>, latest |-> -1, nodes |-> <<>>]

\* w.put(it) on the walker record
walkerPut(w, it) ==
    [w EXCEPT !.inputs = put(w.inputs, it).inputs, !.latest = put(w.inputs, it).latest]

RECURSIVE toNode(_, _)
RECURSIVE walkBuild(_, _)
RECURSIVE addReplaceFrom(_, _, _)

\* walker.addReplace: w.toNode(inner[i], in.Replacements[i], env) for each i
addReplaceFrom(w, repl, i) ==
    IF i > Len(repl) THEN w ELSE addReplaceFrom(toNode(w, repl[i]), repl, i + 1)
addReplace(w, in) == addReplaceFrom(w, in.repl, 1)

\* walker.lowerUnionMap after walkBuild(in.Child.Final()) left the walker w
unionMapAfterChild(w, in) ==
    LET w1 == IF w.latest = -1 THEN walkerPut(w, in.it) ELSE w
    IN [addReplace(w1, in.child[1]) EXCEPT !.latest = w1.latest]

lowerUnionMap(w, in) == unionMapAfterChild(walkBuild(w, in.child[1]), in)

\* walker.walkBuild down to the terminal step of the trace
walkBuild(w, in) ==
    CASE in.k = "IterTable" -> walkerPut(w, in.it)
      [] in.k = "NoOutput" -> w
      [] in.k = "UnionMap" -> lowerUnionMap(w, in)

\* walker.toNode after walkBuild left the walker w: t.Input = w.latest, then
\* addReplace; the Node is logged with the trace it was made for
toNodeAfterWalk(w, in) ==
    [addReplace(w, in) EXCEPT !.nodes = Append(@, [trace |-> in, input |-> w.latest])]

toNode(w, in) == toNodeAfterWalk(walkBuild([w EXCEPT !.latest = -1], in), in)

\* walker.finish with an environment whose Stat succeeds
finishAll(ins) == [i \in 1..Len(ins) |-> inputFinish(ins[i], stat(ins[i], TRUE))]

\* toTree: the Tree's Inputs and its Nodes (Root is the last one logged)
toTree(in) ==
    [inputs |-> finishAll(toNode(NewWalker, in).inputs),
     nodes |-> toNode(NewWalker, in).nodes,
     op |-> "plan"]

\* newTree after Build and Split/NoSplit gave the trace b
newTree(b, explain) ==
    IF ~explain
    THEN toTree(b)
    ELSE \* &Tree{Inputs: tree.Inputs, Root: Node{Op: op}}: Input is left 0
         [inputs |-> toTree(b).inputs,
          nodes |-> << [trace |-> b, input |-> 0] >>,
          op |-> "explain"]

TreeArgs == [f : {"newTree"}, b : Traces, explain : BOOLEAN]

\* New / NewSplit
callNewTree ==
    /\ pcCall = "idle" /\ arg.f = "newTree"
    /\ ret' = [f |-> "newTree", tree |-> newTree(arg.b, arg.explain)]
    /\ pcCall' = "done"
    /\ UNCHANGED <<arg, varsU, varsP, varsO, varsK, varsS>>

NextTree == callNewTree

InitTree ==
    /\ hashOf = [d \in Strings |-> 7]
    /\ root = Nil /\ nodes = NoNodes /\ thr = [t \in Threads |-> IdleThread] /\ rets = NoRets
    /\ inputs = <<>> /\ latest = -1 /\ leaves = <<>> /\ attempts = <<>>
    /\ pcPlan = "walk" /\ fi = 0 /\ outInputs = <<>> /\ statLog = <<>>
    /\ cancelReq = "no" /\ result = NoResult
    /\ steps = [id \in StepIds |-> FreeStep] /\ top = Nil /\ rules = NoRules
    /\ regLog = <<>> /\ fpo = FpoStart /\ lastApply = NoApply
    /\ intactSeen = <<>> /\ passes = 0
    /\ arg \in TreeArgs /\ pcCall = "idle" /\ ret = NoRet
    /\ kern = NoKernels /\ downRows = NoRows /\ fieldsSeen = {}
    /\ idxSink = NewIndexSink /\ closer = NoClosers

SpecTree == InitTree /\ [][NextTree]_vars

(***************************************************************************)
(* vm: UnpivotAtDistinct, one kernelUnpivotAtDistinct per stream           *)
(***************************************************************************)
\* outRowsCapacity, the capacity of u.dummy (1024 in the code)
OutRowsCapacity == 2

\* the symbol tables of the streams: st.symrefs, symbol -> the bytes of the
\* field name. The same name has different symbols in different tables.
SymTabs == { << <<1>>, <<2>> >>, << <<2>> >> }

\* the aux loop and unpivotAtDistinctDeduplicate: the bits of the symbols S
\* that occur as fields of the rows are set in u.buf
unpivotAtDistinctDeduplicate(buf, S) == buf \cup S

\* u.out.writeRows(u.dummy, &u.params): one row per name of auxbound[0]
written(rows, dummy) ==
    [d \in DOMAIN rows |-> rows[d] + Cardinality({ i \in 1..Len(dummy) : dummy[i] = d })]

\* the lowest set bit not yet visited: bits.TrailingZeros over the chunks
lowestBit(todo) == CHOOSE k \in todo : \A m \in todo : k <= m

\* kernelUnpivotAtDistinct.symbolize(st, aux) on the kernel k: a new symbol
\* table and a new, empty bit vector
symbolize(k, st) == [k EXCEPT !.syms = st, !.buf = {}, !.dummy = <<>>]

\* the kernel when rows of the table st arrive: the splitter calls symbolize
\* before writeRows whenever the symbol table of the stream has changed
symbolized(k, st) == IF k.syms = st THEN k ELSE symbolize(k, st)

\* writeRows on the kernel k up to its first call of unify: the bits of the
\* rows' symbols are set and the loop over u.buf comes to the lowest set bit
writeRowsOf(t, k, S) ==
    /\ kern[t].pc = "idle"
    /\ S # {}
    /\ LET bits == unpivotAtDistinctDeduplicate(k.buf, S)
       IN /\ unifyEnter(t, k.syms[lowestBit(bits)])
          /\ kern' = [kern EXCEPT ![t] = [k EXCEPT !.buf = bits,
                                                   !.todo = bits \ {lowestBit(bits)},
                                                   !.cur = k.syms[lowestBit(bits)],
                                                   !.pc = "unify"]]
    /\ fieldsSeen' = fieldsSeen \cup { k.syms[m] : m \in S }
    /\ UNCHANGED <<downRows, varsP, varsO, varsE, varsS>>

\* rows of any symbol table, with any of its symbols as fields, are written
\* to the stream
writeRows(t) ==
    \E st \in SymTabs : \E S \in SUBSET DOMAIN st :
        writeRowsOf(t, symbolized(kern[t], st), S)

\* the loop over the set bits: the next symbol is given to unify
writeRowsScan(t) ==
    /\ kern[t].pc = "scan"
    /\ unifyEnter(t, kern[t].syms[lowestBit(kern[t].todo)])
    /\ kern' = [kern EXCEPT ![t].todo = @ \ {lowestBit(@)},
                            ![t].cur = kern[t].syms[lowestBit(kern[t].todo)],
                            ![t].pc = "unify"]
    /\ UNCHANGED <<downRows, fieldsSeen, varsP, varsO, varsE, varsS>>

\* the rest of one loop iteration after unify returned TRUE (appended) or
\* FALSE, the rows in u.dummy being d: a full u.dummy is written downstream;
\* after the last bit the rows left in u.dummy are written and writeRows
\* returns
loopOn(t, appended, d) ==
    LET full == appended /\ Len(d) = OutRowsCapacity
        last == kern[t].todo = {}
    IN /\ kern' = [kern EXCEPT ![t].pc = IF last THEN "idle" ELSE "scan",
                               ![t].cur = <<>>,
                               ![t].dummy = IF full \/ last THEN <<>> ELSE d]
       /\ downRows' = IF full \/ last THEN written(downRows, d) ELSE downRows

\* mutant of unified: the name is appended whatever unify returned
unified_always(t, res) == loopOn(t, TRUE, Append(kern[t].dummy, kern[t].cur))

\* writeRows after unify returned res: if true the name is appended to
\* u.dummy / auxbound[0]
unified(t, res) ==
    loopOn(t, res, IF res THEN Append(kern[t].dummy, kern[t].cur) ELSE kern[t].dummy)

\* unify's loop inside writeRows; 'return false' comes back to writeRows
writeRowsUnifyLoad(t) ==
    /\ kern[t].pc = "unify"
    /\ unifyLoadStep(t)
    /\ IF thr'[t].pc = "idle" THEN unified(t, FALSE) ELSE UNCHANGED <<kern, downRows>>
    /\ UNCHANGED <<fieldsSeen, varsP, varsO, varsE, varsS>>

\* unify's compare-and-swap inside writeRows; 'return true' comes back
writeRowsUnifyCAS(t) ==
    /\ kern[t].pc = "unify"
    /\ unifyCASStep(t)
    /\ IF thr'[t].pc = "idle" THEN unified(t, TRUE) ELSE UNCHANGED <<kern, downRows>>
    /\ UNCHANGED <<fieldsSeen, varsP, varsO, varsE, varsS>>

NextUnpivot ==
    \/ \E t \in Threads : writeRows(t)
    \/ \E t \in Threads : writeRowsScan(t)
    \/ \E t \in Threads : writeRowsUnifyLoad(t)
    \/ \E t \in Threads : writeRowsUnifyCAS(t)

\* NewUnpivotAtDistinct: a new unifier; no stream has been opened yet
InitUnpivot == InitUnify /\ hashOf = mixedHash

SpecUnpivot == InitUnpivot /\ [][NextUnpivot]_vars

(***************************************************************************)
(* plan: uploadSink.Close and indexSink.Close                              *)
(***************************************************************************)
MaxCloses == 2

\* a goroutine gets to indexSink.Close: from uploadSink.Close, which has
\* closed its writer, made its descriptor and called is.rawAppend(&desc)
\* (under is.lock) before 'return up.dst.Close()', or by a direct call
enterClose(g, upload) ==
    /\ closer[g].pc = "idle"
    /\ closer[g].calls < MaxCloses
    /\ closer' = [closer EXCEPT ![g].pc = "check", ![g].calls = @ + 1]
    /\ idxSink' = IF upload THEN [idxSink EXCEPT !.inline = @ \cup {g}] ELSE idxSink
    /\ UNCHANGED <<varsU, varsP, varsO, varsE, varsK>>

\* if is.closed { return nil }: is.closed is read without the lock
closeCheck(g) ==
    /\ closer[g].pc = "check"
    /\ closer' = [closer EXCEPT ![g].pc = IF idxSink.closed THEN "idle" ELSE "set"]
    /\ UNCHANGED <<idxSink, varsU, varsP, varsO, varsE, varsK>>

\* is.closed = true
closeSet(g) ==
    /\ closer[g].pc = "set"
    /\ idxSink' = [idxSink EXCEPT !.closed = TRUE]
    /\ closer' = [closer EXCEPT ![g].pc = "sign"]
    /\ UNCHANGED <<varsU, varsP, varsO, varsE, varsK>>

\* blockfmt.Sign(is.parent.Key, is.idx); Store.WriteFile(idxpath, idxmem):
\* the index with the descriptors appended so far is written to the store
closeSignWrite(g) ==
    /\ closer[g].pc = "sign"
    /\ idxSink' = [idxSink EXCEPT !.written = Append(@, idxSink.inline)]
    /\ closer' = [closer EXCEPT ![g].pc = "emit"]
    /\ UNCHANGED <<varsU, varsP, varsO, varsE, varsK>>

\* is.dst.Open(); w.Write(buf.Bytes()); return w.Close(): the table-name row
closeEmit(g) ==
    /\ closer[g].pc = "emit"
    /\ idxSink' = [idxSink EXCEPT !.rows = @ + 1]
    /\ closer' = [closer EXCEPT ![g].pc = "idle"]
    /\ UNCHANGED <<varsU, varsP, varsO, varsE, varsK>>

NextSink ==
    \/ \E g \in Threads, upload \in BOOLEAN : enterClose(g, upload)
    \/ \E g \in Threads : closeCheck(g)
    \/ \E g \in Threads : closeSet(g)
    \/ \E g \in Threads : closeSignWrite(g)
    \/ \E g \in Threads : closeEmit(g)

\* OutputIndex.exec: a new indexSink shared by the uploadSinks of the threads
InitSink == InitUnify /\ hashOf = mixedHash

SpecSink == InitSink /\ [][NextSink]_vars

SpecUnify == InitUnify /\ [][NextUnify]_vars
SpecPlan == InitPlan /\ [][NextPlan]_vars
SpecOpt == InitOptimize /\ [][NextOpt]_vars
SpecExpr == InitExpr /\ [][NextExpr]_vars
InitUnifyFair == InitUnify /\ hashOf = mixedHash
\* every goroutine inside unify is scheduled again and again
SpecUnifyFair ==
    InitUnifyFair /\ [][NextUnify]_vars
        /\ \A t \in Threads : WF_vars(unifyLoad(t) \/ unifyCAS(t))
\* optimize runs on one goroutine that is never suspended for ever
SpecOptFair == SpecOpt /\ WF_vars(optimizePass) /\ WF_vars(optimizeStep)

(***************************************************************************)
(* Properties of the input deduplication                                   *)
(***************************************************************************)
conjOf(f) == IF f = NilExpr THEN <<>> ELSE conjunctions(f, <<>>)
hasConjunct(seq, c) == \E i \in 1..Len(seq) : Equivalent(seq[i], c)
cnt(seq, c) == Cardinality({ i \in 1..Len(seq) : Equivalent(seq[i], c) })
elems(seq) == { seq[i] : i \in 1..Len(seq) }
slotInput(l) == inputs[l.slot + 1]

\* C2: after any sequence of walker.put calls, for every leaf the input of
\* its slot reads the leaf's table with hints no more restrictive than the
\* leaf's own: every conjunct of the merged filter is a conjunct of the
\* leaf's filter, the merged fields contain the leaf's fields or are
\* all-fields, and the Filter op above the leaf still carries the leaf's
\* whole filter.
C2_DedupNoMoreRestrictive ==
    \A i \in 1..Len(leaves) :
        LET l == leaves[i]
            in == slotInput(l)
        IN /\ l.slot >= 0 /\ l.slot < Len(inputs)
           /\ Equals(in.table, l.it.table)
           /\ \A c \in elems(conjOf(in.filter)) : hasConjunct(conjOf(l.it.filter), c)
           /\ \/ in.allFields
              \/ ~l.it.wildcard /\ elems(l.it.fields) \subseteq elems(in.fields)
           /\ l.filterOp = l.it.filter

\* C2 witness: a leaf shares a slot whose merged filter is a proper, non-empty
\* part of the leaf's filter, and a wildcard leaf shares a slot with another
C2_Witness ==
    /\ \E i \in 1..Len(leaves) :
          /\ slotInput(leaves[i]).filter # NilExpr
          /\ Len(conjOf(slotInput(leaves[i]).filter)) < Len(conjOf(leaves[i].it.filter))
    /\ \E i, j \in 1..Len(leaves) :
          /\ i # j /\ leaves[i].slot = leaves[j].slot
          /\ leaves[i].it.wildcard /\ ~leaves[j].it.wildcard

\* whether e contains a comparison one of whose operands is a timestamp
RECURSIVE involvesTsCmp(_)
involvesTsCmp(e) ==
    CASE e.k = "cmp" -> isTimestamp(e.left) \/ isTimestamp(e.right)
                        \/ involvesTsCmp(e.left) \/ involvesTsCmp(e.right)
      [] e.k = "logical" -> involvesTsCmp(e.left) \/ involvesTsCmp(e.right)
      [] e.k = "not" -> involvesTsCmp(e.expr)
      [] OTHER -> FALSE

\* C3: merging never drops a predicate that involves a timestamp comparison:
\* every conjunct of a leaf's filter that involves a timestamp comparison is
\* still a conjunct of the filter hint of the leaf's slot (so a leaf whose
\* timestamp predicate the other side lacks keeps a slot of its own).
C3_TimestampNeverDropped ==
    \A i \in 1..Len(leaves) :
        \A c \in elems(conjOf(leaves[i].it.filter)) :
            involvesTsCmp(c) => hasConjunct(conjOf(slotInput(leaves[i]).filter), c)

\* the left-over conjuncts of xs (those without a partner in ys) are removable
leftoverRemovable(xs, ys) ==
    \A i \in 1..Len(xs) : cnt(xs, xs[i]) > cnt(ys, xs[i]) => canRemoveHint(xs[i])

C5_MergedFilterIsIntersection ==
    \A i \in 1..Len(attempts) :
        LET a == attempts[i]
            xs == conjOf(a.x.filter)
            ys == conjOf(a.in.filter)
            ns == conjOf(a.out.filter)
        IN a.ok =>
            /\ \A c \in elems(xs) \cup elems(ys) \cup elems(ns) :
                  cnt(ns, c) = Min(cnt(xs, c), cnt(ys, c))
            /\ (a.out.filter = NilExpr) <=> (\A c \in elems(xs) : ~hasConjunct(ys, c))

\* C5 witness: a successful merge with two common conjuncts and a left-over one
C5_Witness ==
    \E i \in 1..Len(attempts) :
        /\ attempts[i].ok
        /\ Len(conjOf(attempts[i].out.filter)) = 2
        /\ Len(conjOf(attempts[i].x.filter)) + Len(conjOf(attempts[i].in.filter)) = 5

statCallsOf(s) == { j \in 1..Len(statLog) : statLog[j].slot = s }
sameHints(a, b) == a.filter = b.filter /\ a.fields = b.fields /\ a.allFields = b.allFields

C10_StatOnceWithFinalHints ==
    /\ result.kind = "tree" =>
          /\ Len(result.inputs) = Len(inputs)
          /\ \A s \in 1..Len(inputs) :
                /\ Cardinality(statCallsOf(s)) = 1
                /\ \A j \in statCallsOf(s) : statLog[j].ok /\ sameHints(statLog[j].hints, inputs[s])
                /\ result.inputs[s].table = inputs[s].table
                /\ result.inputs[s].handle = envStat(inputs[s].table, inputs[s])
    /\ \A i \in 1..Len(attempts) : attempts[i].ok => attempts[i].out.handle = NilHandle
    /\ statLog # <<>> => pcPlan # "walk"

\* C10 witness: a Tree whose input table has two entries, one of them merged
\* from two leaves
C10_Witness ==
    /\ result.kind = "tree"
    /\ Len(result.inputs) = 2
    /\ Len(leaves) = 3
    /\ \E s \in 1..Len(inputs) : \E i \in 1..Len(leaves) :
          leaves[i].slot + 1 = s /\ ~sameHints(trialInput(leaves[i].it), inputs[s])

(***************************************************************************)
(* Properties of the fixed-point optimizer                                 *)
(***************************************************************************)
\* the chain from step id down, following parent pointers
RECURSIVE chainFrom(_, _)
chainFrom(heap, id) == IF id = Nil THEN <<>> ELSE <<id>> \o chainFrom(heap, heap[id].parent)

\* the rules registered for type t, in the order add was called
RECURSIVE registeredFor(_, _)
registeredFor(log, t) ==
    IF log = <<>> THEN <<>>
    ELSE IF ruleType(Head(log)) = t THEN <<Head(log)>> \o registeredFor(Tail(log), t)
    ELSE registeredFor(Tail(log), t)

optimizeRunning == fpo.pc \in {"pass", "walk"}
noSpinRule == \A i \in 1..Len(regLog) : regLog[i] # "bindSpin"

C7_ReturnsAtFixedPoint ==
    fpo.pc = "done" =>
        /\ ~fpo.somethingChanged
        /\ intactSeen = chainFrom(steps, top)
        /\ \A i \in 1..Len(intactSeen) : apply(rules, steps, intactSeen[i]).status = "fpoIntact"

\* C7 witness: optimize returned after a rewrite, with rules registered
\* for two steps of the final chain
C7_Witness ==
    /\ fpo.pc = "done"
    /\ passes >= 2
    /\ Cardinality({ i \in 1..Len(intactSeen) : rules[steps[intactSeen[i]].type] # <<>> }) >= 2

\* C8: apply tries the rules registered for the step's type in registration
\* order and stops at the first whose status is not fpoIntact: the rules
\* invoked are a prefix of the registered ones, all but the last returned
\* fpoIntact, and the result is that of the last one invoked.
C8_FirstRuleInRegistrationOrder ==
    lastApply.s # Nil =>
        LET regs == registeredFor(regLog, lastApply.heap[lastApply.s].type)
            inv == lastApply.invoked
            outOf(k) == ruleCall(inv[k], lastApply.heap, lastApply.s)
        IN /\ Len(inv) <= Len(regs)
           /\ inv = SubSeq(regs, 1, Len(inv))
           /\ \A k \in 1..(Len(inv) - 1) : outOf(k).status = "fpoIntact"
           /\ IF lastApply.status = "fpoIntact"
              THEN inv = regs /\ \A k \in 1..Len(inv) : outOf(k).status = "fpoIntact"
              ELSE /\ inv # <<>>
                   /\ outOf(Len(inv)).status = lastApply.status
                   /\ outOf(Len(inv)).n = lastApply.n

\* C8 witness: of three rules registered for the step's type the first
\* returned fpoIntact, the second won, and the third, which would have
\* rewritten the step too, was not invoked
C8_Witness ==
    /\ lastApply.s # Nil
    /\ Len(lastApply.invoked) = 2
    /\ lastApply.status # "fpoIntact"
    /\ LET regs == registeredFor(regLog, lastApply.heap[lastApply.s].type)
       IN /\ Len(regs) = 3
          /\ ruleCall(regs[3], lastApply.heap, lastApply.s).status # "fpoIntact"

(***************************************************************************)
(* Properties of the slot numbering of walker.put                          *)
(***************************************************************************)
\* the entries of the input table ins that accept the trial input in
accepting(ins, in) == { i \in 1..Len(ins) : merge(ins[i], in).ok }
least(S) == CHOOSE i \in S : \A m \in S : i <= m

\* the first leaf that was pointed at slot s
firstUse(s) == least({ i \in 1..Len(leaves) : leaves[i].slot = s })

\* what one walker.put does to the input table
C11_PutStep ==
    /\ \A i \in 1..Len(inputs) : i <= Len(inputs') /\ inputs'[i].table = inputs[i].table
    /\ Len(leaves') = Len(leaves) + 1 =>
          LET in == trialInput(leaves'[Len(leaves')].it)
              acc == accepting(inputs, in)
          IN IF acc # {}
             THEN /\ Len(inputs') = Len(inputs)
                  /\ latest' + 1 = least(acc)
                  /\ leaves'[Len(leaves')].slot = latest'
                  /\ \A i \in 1..Len(inputs) : i # least(acc) => inputs'[i] = inputs[i]
             ELSE /\ inputs' = Append(inputs, in)
                  /\ latest' = Len(inputs)
                  /\ leaves'[Len(leaves')].slot = latest'

\* every slot recorded in a leaf denotes the leaf's table, and the slots are
\* numbered in the order in which they were first used
C11_SlotsDenote ==
    /\ \A i \in 1..Len(leaves) :
          /\ leaves[i].slot \in 0..(Len(inputs) - 1)
          /\ inputs[leaves[i].slot + 1].table = leaves[i].it.table
    /\ \A s \in 0..(Len(inputs) - 1) : \E i \in 1..Len(leaves) : leaves[i].slot = s
    /\ \A s, u \in 0..(Len(inputs) - 1) : s < u => firstUse(s) < firstUse(u)

\* C11: input slot indices are stable and deterministic: no step removes or
\* reorders entries of the input table; walker.put merges the new input
\* into the lowest-indexed entry that accepts it and leaves the others
\* alone, or else appends it at the next index; every slot recorded earlier
\* still denotes the same table and slots are numbered in first-seen order.
C11_SlotsStable == [][C11_PutStep]_vars /\ []C11_SlotsDenote

\* C11 witness: three leaves, the third merged into the second slot after
\* the first slot, which reads the same table, refused it
C11_Witness ==
    /\ Len(leaves) = 3 /\ Len(inputs) = 2
    /\ leaves[1].slot = 0 /\ leaves[2].slot = 1 /\ leaves[3].slot = 1
    /\ Len(attempts) = 2 /\ ~attempts[1].ok /\ attempts[2].ok
    /\ inputs[1].table = inputs[2].table

(***************************************************************************)
(* Properties of expr                                                      *)
(***************************************************************************)
\* C12: for every AST node n of every variant, decoding the encoding of n
\* yields a node equivalent to n: Equivalent(decode(encode(n)), n).
C12_RoundTripEquivalent ==
    (pcCall = "done" /\ arg.f = "Decode") => Equivalent(ret.node, arg.n)

\* C13: Equivalent is an equivalence relation across the numeric literal
\* representations: Integer(0), Float(0.0) and Rational(0/1) are pairwise
\* equivalent, and for all Integer, Float and Rational literals a, b, c,
\* Equivalent(a, b) implies Equivalent(b, a), and Equivalent(a, b) with
\* Equivalent(b, c) implies Equivalent(a, c).
C13_EquivalenceRelation ==
    (pcCall = "done" /\ arg.f = "Equivalent") =>
        /\ ({arg.a, arg.b} \subseteq {Integer(I(0)), Float(I(0)), Rational(I(0))} => ret.ab)
        /\ (ret.ab => ret.ba)
        /\ (ret.ab /\ ret.bc => ret.ac)

\* whether e is composed of Ident and Dot only
RECURSIVE identDotOnly(_)
identDotOnly(e) ==
    CASE e.k = "ident" -> TRUE
      [] e.k = "dot" -> identDotOnly(e.inner)
      [] OTHER -> FALSE

\* C14 as claimed: for every path expression p (IsPath(p) true), FlatPath(p)
\* succeeds and MakePath of its result is equivalent to p.
C14_EveryPathFlattens ==
    (pcCall = "done" /\ arg.f = "FlatPath" /\ ret.isPath) =>
        ret.flat.ok /\ Equivalent(ret.made, arg.e)

\* C14: for every path expression p composed of Ident and Dot only,
\* FlatPath(p) succeeds and MakePath of its result is equivalent to p; for
\* every other expression, a path holding an Index included, FlatPath
\* returns (nil, false).
C14_DotPathRoundTrip ==
    (pcCall = "done" /\ arg.f = "FlatPath") =>
        IF identDotOnly(arg.e)
        THEN ret.isPath /\ ret.flat.ok /\ Equivalent(ret.made, arg.e)
        ELSE ret.flat = NotFlat

\* C14 witness: a path of three components was flattened and rebuilt
C14_Witness ==
    /\ pcCall = "done" /\ arg.f = "FlatPath"
    /\ ret.flat.ok /\ Len(ret.flat.fields) = 3
    /\ ret.flat.fields[2] # ret.flat.fields[3]
    /\ ret.made = arg.e

(***************************************************************************)
(* C20: the order of the list conjunctions returns                         *)
(***************************************************************************)
\* the operands of the top-level ANDs of e that are not ANDs themselves,
\* read from left to right
RECURSIVE andOperands(_)
andOperands(e) ==
    IF e.k = "logical" /\ e.op = "and"
    THEN andOperands(e.left) \o andOperands(e.right)
    ELSE <<e>>

reversed(s) == [i \in 1..Len(s) |-> s[Len(s) + 1 - i]]

\* C20 (as stated): conjunctions(e) returns the top-level AND-conjuncts of e
\* in left-to-right order: for and(x, y) every conjunct of x comes before
\* every conjunct of y, and an expression that is not an AND gives [e].
C20_LeftToRight ==
    (pcCall = "done" /\ arg.f = "conjunctions") => ret.lst = andOperands(arg.e)

\* C20 (amended): conjunctions(e) returns the top-level AND-conjuncts of e
\* in right-to-left order: for and(x, y) every conjunct of y comes before
\* every conjunct of x, and an expression that is not an AND gives [e].
C20_RightToLeft ==
    (pcCall = "done" /\ arg.f = "conjunctions") =>
        /\ ret.lst = reversed(andOperands(arg.e))
        /\ ~(arg.e.k = "logical" /\ arg.e.op = "and") => ret.lst = <<arg.e>>

\* conjunctions has returned the three different conjuncts of (x AND y) AND z
C20_Witness ==
    /\ pcCall = "done" /\ arg.f = "conjunctions"
    /\ arg.e.k = "logical" /\ arg.e.op = "and"
    /\ arg.e.left.k = "logical" /\ arg.e.left.op = "and"
    /\ Len(ret.lst) = 3
    /\ ret.lst = <<arg.e.right, arg.e.left.right, arg.e.left.left>>
    /\ Cardinality({ ret.lst[i] : i \in 1..3 }) = 3

(***************************************************************************)
(* C19: the Filter op above a leaf whose input is shared                   *)
(***************************************************************************)
\* the walk met exactly two leaves, i with filter a > 10 and j with filter
\* a > 10 AND b < 5, both reading table T1
twoLeaves(i, j) ==
    /\ Len(leaves) = 2 /\ {i, j} = {1, 2}
    /\ leaves[i].it = [table |-> Ident("T1"), filter |-> gt10,
                       fields |-> <<"a">>, wildcard |-> FALSE]
    /\ leaves[j].it = [table |-> Ident("T1"), filter |-> And(gt10, lt5),
                       fields |-> <<"a", "b">>, wildcard |-> FALSE]

sharedInput(i, j) ==
    /\ Len(inputs) = 1 /\ leaves[i].slot = 0 /\ leaves[j].slot = 0
    /\ inputs[1].filter = gt10 /\ inputs[1].fields = <<"a", "b">> /\ ~inputs[1].allFields

\* C19 (as stated): two leaves reading the same table with filters a > 10 and
\* a > 10 AND b < 5 share one Input with filter hint a > 10 and fields
\* {a, b}, and the Filter op above the second leaf carries only the residual
\* b < 5; in general the Filter op above a leaf carries only the conjuncts
\* of the leaf's filter that are not in the shared Input's merged filter.
C19_ResidualFilter ==
    /\ \A i, j \in 1..Len(leaves) :
          twoLeaves(i, j) => sharedInput(i, j) /\ leaves[j].filterOp = lt5
    /\ \A i \in 1..Len(leaves) :
          \A c \in elems(conjOf(leaves[i].filterOp)) :
              ~hasConjunct(conjOf(slotInput(leaves[i]).filter), c)

\* C19 (amended): the two leaves share one Input with filter hint a > 10 and
\* fields {a, b}, and the Filter op above the second leaf carries the leaf's
\* whole filter a > 10 AND b < 5; in general the Filter op above a leaf
\* carries the leaf's own filter, whatever the shared Input's merged filter.
C19_WholeFilter ==
    /\ \A i, j \in 1..Len(leaves) :
          twoLeaves(i, j) => sharedInput(i, j) /\ leaves[j].filterOp = And(gt10, lt5)
    /\ \A i \in 1..Len(leaves) : leaves[i].filterOp = leaves[i].it.filter

\* the second leaf, with filter a > 10 AND b < 5, was put after the first
C19_Witness ==
    /\ twoLeaves(1, 2) /\ sharedInput(1, 2)
    /\ Len(attempts) = 1 /\ attempts[1].ok

(***************************************************************************)
(* C15: a Limit step with an offset                                        *)
(***************************************************************************)
limitCalled == pcCall = "done" /\ arg.f = "lowerLimit"
notSupported(r) == ~r.ok /\ ~r.panic /\ r.err.kind = "ErrNotSupported" /\ r.op = NilOp
foldedInOrderBy(r) ==
    /\ r.ok /\ r.op.op = "OrderBy"
    /\ r.op = [arg.from EXCEPT !.limit = arg.in.count, !.offset = arg.in.offset]

\* C15 (as stated): lowering a Limit step with a non-zero offset is rejected
\* with a not-supported error when the op beneath is a HashAggregate or a
\* Distinct, and is accepted when the op beneath is an OrderBy, the count and
\* the offset being folded into that OrderBy with no separate Limit op.
C15_OffsetRejected ==
    (limitCalled /\ arg.in.offset # 0) =>
        /\ arg.from.op \in {"HashAggregate", "Distinct"} => notSupported(ret.r)
        /\ arg.from.op = "OrderBy" => foldedInOrderBy(ret.r)

\* C15 (amended): a Limit step whose count is zero lowers to NoOutput whatever
\* its offset and the op beneath it; with a non-zero count and a non-zero
\* offset it is rejected with a not-supported error when the op beneath is a
\* HashAggregate or a Distinct, and accepted when the op beneath is an
\* OrderBy, the count and the offset being folded into that OrderBy with no
\* separate Limit op.
C15_OffsetRejectedUnlessCountZero ==
    limitCalled =>
        /\ arg.in.count = 0 => ret.r = okOp(NoOutput)
        /\ (arg.in.count # 0 /\ arg.in.offset # 0) =>
              /\ arg.from.op \in {"HashAggregate", "Distinct"} => notSupported(ret.r)
              /\ arg.from.op = "OrderBy" => foldedInOrderBy(ret.r)

\* LIMIT 5 OFFSET 2 was folded into the OrderBy beneath it
C15_Witness ==
    /\ limitCalled /\ arg.in = [count |-> 5, offset |-> 2]
    /\ arg.from.op = "OrderBy" /\ arg.from.limit = 0
    /\ ret.r.ok /\ ret.r.op.op = "OrderBy" /\ ret.r.op.limit = 5 /\ ret.r.op.offset = 2

(***************************************************************************)
(* C16: the op an Aggregate step lowers to                                 *)
(***************************************************************************)
aggregateCalled == pcCall = "done" /\ arg.f = "lowerAggregate"
noGroupBy == arg.in.groupBy = NilBindings
\* the aggregate list is a single COUNT(*), without a FILTER
singleCountStar ==
    /\ Len(arg.in.agg) = 1
    /\ arg.in.agg[1].expr.op = "count" /\ arg.in.agg[1].expr.inner = Star
    /\ arg.in.agg[1].expr.filter = NilExpr
isWindowAgg(b) == b.expr.op \in {"row_number", "rank", "dense_rank"}
noWindowAggs == \A i \in 1..Len(arg.in.agg) : ~isWindowAgg(arg.in.agg[i])
splitHashAggregate(o) ==
    /\ o.op = "HashAggregate" /\ o.from = arg.from /\ o.by = arg.in.groupBy
    /\ o.agg = SelectSeq(arg.in.agg, LAMBDA b : ~isWindowAgg(b))
    /\ o.windows = SelectSeq(arg.in.agg, isWindowAgg)

\* C16 (as stated): lowerAggregate produces CountStar exactly when there is no
\* GROUP BY and the aggregate list is a single COUNT(*); SimpleAggregate when
\* there is no GROUP BY and there are no window aggregates; and in every other
\* case a HashAggregate whose Agg and Windows lists are the non-window and the
\* window-only aggregates of the step, each in original order.
C16_HashAggregateOtherwise ==
    aggregateCalled =>
        /\ ret.r.ok
        /\ ret.r.op.op = "CountStar" <=> (noGroupBy /\ singleCountStar)
        /\ (noGroupBy /\ ~singleCountStar /\ noWindowAggs) => ret.r.op.op = "SimpleAggregate"
        /\ ~(noGroupBy /\ (singleCountStar \/ noWindowAggs)) => splitHashAggregate(ret.r.op)

\* C16 (amended): lowerAggregate produces CountStar exactly when there is no
\* GROUP BY and the aggregate list is a single COUNT(*) without a filter;
\* SimpleAggregate, with the whole aggregate list as its outputs, in every
\* other case without a GROUP BY, window aggregates or not; and a HashAggregate
\* exactly when there is a GROUP BY, its Agg and Windows lists being the
\* non-window and the window-only aggregates of the step, each in original
\* order.
C16_HashAggregateIffGroupBy ==
    aggregateCalled =>
        /\ ret.r.ok
        /\ ret.r.op.op = "CountStar" <=> (noGroupBy /\ singleCountStar)
        /\ ret.r.op.op = "SimpleAggregate" <=> (noGroupBy /\ ~singleCountStar)
        /\ ret.r.op.op = "SimpleAggregate" => ret.r.op.outputs = arg.in.agg
        /\ ret.r.op.op = "HashAggregate" <=> ~noGroupBy
        /\ ~noGroupBy => splitHashAggregate(ret.r.op)

\* a grouped step with two window aggregates around a plain one was split
C16_Witness ==
    /\ aggregateCalled /\ ~noGroupBy /\ Len(arg.in.agg) = 3
    /\ isWindowAgg(arg.in.agg[1]) /\ ~isWindowAgg(arg.in.agg[2]) /\ isWindowAgg(arg.in.agg[3])
    /\ ret.r.op.agg = <<arg.in.agg[2]>>
    /\ ret.r.op.windows = <<arg.in.agg[1], arg.in.agg[3]>>

(***************************************************************************)
(* C17: the hash orders of an Order step above a HashAggregate             *)
(***************************************************************************)
orderCalled == pcCall = "done" /\ arg.f = "lowerOrder"
\* the names of the outputs of a hash aggregate: aggregate outputs, then
\* group keys, then window outputs
outputNames(ha) ==
    [i \in 1..Len(ha.agg) |-> ha.agg[i].result]
    \o [i \in 1..Len(ha.by) |-> ha.by[i].result]
    \o [i \in 1..Len(ha.windows) |-> ha.windows[i].result]
namesOutput(e, ha) ==
    e.k = "ident" /\ \E p \in 1..Len(outputNames(ha)) : outputNames(ha)[p] = e.name
\* the position, from 0, of the output e names
positionOf(e, ha) ==
    (CHOOSE p \in 1..Len(outputNames(ha)) : outputNames(ha)[p] = e.name) - 1
everyKeyNamesOutput ==
    /\ arg.from.op = "HashAggregate"
    /\ \A i \in 1..Len(arg.in.columns) : namesOutput(arg.in.columns[i].column, arg.from)

\* C17: when the op beneath an Order step is a HashAggregate and every sort
\* key is an identifier naming one of its outputs, lowerOrder attaches one
\* HashOrder per sort key, in sort-key order, whose Column is the position of
\* the named output in the sequence (aggregate outputs, group keys, window
\* outputs), and creates no separate OrderBy op.
C17_HashOrderPerKey ==
    (orderCalled /\ everyKeyNamesOutput) =>
        /\ ret.r.ok /\ ret.r.op.op = "HashAggregate"
        /\ Len(ret.r.op.orderBy) = Len(arg.in.columns)
        /\ \A i \in 1..Len(arg.in.columns) :
              ret.r.op.orderBy[i].column = positionOf(arg.in.columns[i].column, arg.from)

(***************************************************************************)
(* C18: duplicate sort keys                                                *)
(***************************************************************************)
isConstantKey(e) == e.k \in {"bool", "int", "rat", "float", "string"}
equivalentKeys(S) ==
    \E i, j \in S : i < j /\ Equivalent(arg.in.columns[i].column, arg.in.columns[j].column)
allKeys == 1..Len(arg.in.columns)
nonConstantKeys == { i \in allKeys : ~isConstantKey(arg.in.columns[i].column) }
duplicateRejected(r) ==
    ~r.ok /\ ~r.panic /\ r.err.kind = "errorf" /\ r.err.msg = "duplicate order by expression"
\* every sort key names an aggregate output or a group key of the hash
\* aggregate beneath
keysOfAggOrBy ==
    /\ arg.from.op = "HashAggregate"
    /\ \A i \in allKeys :
          /\ arg.in.columns[i].column.k = "ident"
          /\ \/ \E c \in 1..Len(arg.from.agg) :
                   arg.from.agg[c].result = arg.in.columns[i].column.name
             \/ \E c \in 1..Len(arg.from.by) :
                   arg.from.by[c].result = arg.in.columns[i].column.name

strictlySorted(s) == \A i \in 1..(Len(s) - 1) : fieldOrd[s[i]] < fieldOrd[s[i + 1]]

\* C21: after a successful merge the merged input is all-fields if either
\* side was all-fields; otherwise its field list is the union of both sides'
\* field lists, sorted and without duplicates.
C21_MergedFields ==
    \A k \in 1..Len(attempts) :
        attempts[k].ok =>
            /\ attempts[k].out.allFields <=> (attempts[k].x.allFields \/ attempts[k].in.allFields)
            /\ ~attempts[k].out.allFields =>
                  /\ elems(attempts[k].out.fields)
                        = elems(attempts[k].x.fields) \cup elems(attempts[k].in.fields)
                  /\ strictlySorted(attempts[k].out.fields)

\* an input with fields a, b took a trial input with field a
C21_Witness ==
    \E k \in 1..Len(attempts) :
        /\ attempts[k].ok /\ ~attempts[k].out.allFields
        /\ attempts[k].x.fields = <<"a", "b">> /\ attempts[k].in.fields = <<"a">>
        /\ attempts[k].out.fields = <<"a", "b">>

(***************************************************************************)
(* C29: a merge that fails                                                 *)
(***************************************************************************)
\* C29: if input.merge returns false the existing input is exactly as it was
\* before the attempt (table, filter hint, field list, all-fields flag and
\* handle) and the trial input is unchanged, so a failed merge attempt in
\* walker.put has no effect on the input table.
C29_FailedMergeNoEffect ==
    pcPlan = "walk" =>
        /\ \A k \in 1..Len(attempts) :
              /\ attempts[k].in = trialInput(leaves[Len(leaves)].it)
              /\ ~attempts[k].ok =>
                    /\ attempts[k].out = attempts[k].x
                    /\ inputs[k] = attempts[k].x
        /\ (attempts # <<>> /\ \A k \in 1..Len(attempts) : ~attempts[k].ok) =>
              /\ Len(inputs) = Len(attempts) + 1
              /\ inputs[Len(inputs)] = trialInput(leaves[Len(leaves)].it)

\* a trial input with other fields and another filter was refused by an input
\* of its table, whose timestamp hint may not be dropped, and was appended
C29_Witness ==
    /\ pcPlan = "walk" /\ Len(attempts) = 2 /\ Len(inputs) = 3
    /\ ~attempts[1].ok /\ ~attempts[2].ok
    /\ \E k \in 1..2 :
          /\ Equals(attempts[k].x.table, attempts[k].in.table)
          /\ attempts[k].x.fields # attempts[k].in.fields
          /\ attempts[k].x.filter # attempts[k].in.filter

(***************************************************************************)
(* C22, C23, C24: the shape of the unifier tree                            *)
(***************************************************************************)
\* the nodes reachable from q in the heap ns
RECURSIVE reachIn(_, _)
reachIn(ns, q) ==
    IF q = Nil THEN {}
    ELSE {q} \cup reachIn(ns, ns[q].link[1]) \cup reachIn(ns, ns[q].link[2])

\* the link l went from old to new: unchanged, or from nil to a node that
\* was not in the tree and has no children
linkedOnce(old, new) ==
    \/ new = old
    \/ /\ old = Nil /\ new # Nil
       /\ new \notin reachIn(nodes, root)
       /\ nodes'[new].link = <<Nil, Nil>>

C22_Step ==
    /\ linkedOnce(root, root')
    /\ \A n \in reachIn(nodes, root) :
          /\ nodes'[n].hash = nodes[n].hash /\ nodes'[n].data = nodes[n].data
          /\ linkedOnce(nodes[n].link[1], nodes'[n].link[1])
          /\ linkedOnce(nodes[n].link[2], nodes'[n].link[2])
    /\ reachIn(nodes, root) \subseteq reachIn(nodes', root')

\* C22: every link of the unifier tree (the root pointer and each node's two
\* child pointers) changes at most once, from nil to a new leaf node; no node
\* is removed, moved or modified after it has been linked, so every path from
\* the root stays valid.
C22_GrowOnly == [][C22_Step]_vars

\* a node was linked beneath another one, after a compare-and-swap had failed
C22_Witness ==
    /\ root # Nil
    /\ \E b \in 1..2 : nodes[root].link[b] # Nil
    /\ \E t \in Threads : thr[t].fails > 0

\* the composite key: hash first, then bytes
keyLess(a, b) ==
    \/ nodes[a].hash < nodes[b].hash
    \/ nodes[a].hash = nodes[b].hash /\ bytesCompare(nodes[a].data, nodes[b].data) < 0

\* C23: at every moment the unifier tree is a binary search tree under the
\* composite key (hash, then bytes): all nodes under link[0] of a node have a
\* smaller key and all nodes under link[1] a larger key, so no two nodes hold
\* the same byte string, and two distinct strings with equal hashes are both
\* stored.
C23_SearchTree ==
    /\ \A n \in treeNodes :
          /\ \A m \in reachIn(nodes, nodes[n].link[1]) : keyLess(m, n)
          /\ \A m \in reachIn(nodes, nodes[n].link[2]) : keyLess(n, m)
    /\ \A n, m \in treeNodes : nodes[n].data = nodes[m].data => n = m
    /\ \A d \in Strings : rets[d].t > 0 => d \in treeStrings

\* two strings with equal hashes are stored, one beneath the other, and a
\* third node hangs on the other side of the root
C23_Witness ==
    /\ Cardinality(treeNodes) = 3
    /\ \E n, m \in treeNodes : n # m /\ nodes[n].hash = nodes[m].hash
    /\ nodes[root].link[1] # Nil /\ nodes[root].link[2] # Nil

C24_Step ==
    \A t \in Threads :
        (thr[t].pc = "cas" /\ thr'[t].pc = "load") =>
            /\ thr'[t].ip = thr[t].ip /\ thr'[t].p = thr[t].p
            /\ load(thr[t].ip) # Nil

\* C24: a unify call whose compare-and-swap fails retries at the same
\* insertion point, never from the root, and, only finitely many strings
\* being inserted, every unify call returns after finitely many steps.
C24_RetryInPlaceAndReturn ==
    /\ [][C24_Step]_vars
    /\ (~allReturned) ~> allReturned

\* a call is retrying beneath the root after its compare-and-swap failed
C24_Witness ==
    \E t \in Threads :
        /\ thr[t].pc = "load" /\ thr[t].fails > 0
        /\ thr[t].ip # RootIP /\ thr[t].p # Nil

(***************************************************************************)
(* Properties of the switch of optimize                                    *)
(***************************************************************************)
\* the step of optimize that applies the rules to fpo.s is being taken
applying == fpo.pc = "walk" /\ fpo.s # Nil /\ lastApply' # lastApply

\* the steps of the chain under b.top whose parent is s
predecessors(heap, s) ==
    { p \in StepIds : heap[p].alloc /\ heap[p].parent = s
                        /\ \E i \in 1..Len(chainFrom(heap, top)) : chainFrom(heap, top)[i] = p }

C25_Step ==
    LET r == apply(rules, steps, fpo.s)
    IN (applying /\ r.status = "fpoReplace") =>
          /\ fpo'.pc = "walk" /\ fpo'.s = r.n /\ fpo'.prev = fpo.prev
          /\ IF top = fpo.s
             THEN top' = r.n /\ steps' = r.heap
             ELSE /\ top' = top
                  /\ \E p \in StepIds :
                        /\ predecessors(r.heap, fpo.s) = {p}
                        /\ steps' = [r.heap EXCEPT ![p].parent = r.n]

\* C25: when a rule returns fpoReplace with a step n for the current step s,
\* optimize puts n where s was (b.top if s was the top, otherwise the parent
\* of the one step of the chain that preceded s), goes on applying rules at
\* n, and changes no other link of the chain.
C25_ReplaceRelinks == [][C25_Step]_vars

\* a step in the middle of the chain has just been replaced
C25_Witness ==
    /\ lastApply.status = "fpoReplace"
    /\ fpo.pc = "walk" /\ fpo.prev # Nil /\ fpo.s = lastApply.n
    /\ lastApply.heap[fpo.prev].parent = lastApply.s
    /\ steps[fpo.prev].parent = lastApply.n
    /\ lastApply.n # lastApply.s
    /\ top # lastApply.n

C26_Step ==
    LET r == apply(rules, steps, fpo.s)
    IN /\ (applying /\ r.status = "fpoUpdate") =>
             /\ fpo'.pc = "walk" /\ fpo'.s = fpo.s /\ fpo'.prev = fpo.prev
             /\ fpo'.somethingChanged
       \* the mark stays until the pass ends
       /\ (fpo.pc = "walk" /\ fpo.somethingChanged) => fpo'.somethingChanged
       \* and a marked pass is followed by another one from b.top
       /\ (fpo.pc = "pass" /\ fpo.somethingChanged /\ fpo' # fpo) =>
             fpo' = [pc |-> "walk", s |-> top, prev |-> Nil, somethingChanged |-> FALSE]

\* C26: when a rule returns fpoUpdate for a step, the next rule application
\* of the pass is to the same step (s and prev are unchanged), and the pass
\* is marked as having changed something, the mark lasting to the end of the
\* pass, after which optimize starts another pass instead of returning.
C26_UpdateRestartsInPlace == [][C26_Step]_vars

\* a step below the top has just been updated in place
C26_Witness ==
    /\ lastApply.status = "fpoUpdate"
    /\ fpo.pc = "walk" /\ fpo.s = lastApply.s /\ fpo.prev # Nil
    /\ steps[fpo.prev].parent = fpo.s
    /\ steps[fpo.s] # lastApply.heap[fpo.s]
    /\ fpo.somethingChanged

(***************************************************************************)
(* Properties of the Trees made by New and NewSplit                        *)
(***************************************************************************)
\* the table a trace reads at its own leaf: <<table>>, or <<>> if none
RECURSIVE ownTable(_)
ownTable(in) ==
    CASE in.k = "IterTable" -> <<in.it.table>>
      [] in.k = "NoOutput" -> <<>>
      [] in.k = "UnionMap" ->
           IF ownTable(in.child[1]) # <<>> THEN ownTable(in.child[1]) ELSE <<in.it.table>>

nodeInputRight(tree, n) ==
    IF ownTable(n.trace) = <<>>
    THEN n.input = -1
    ELSE /\ n.input \in 0..(Len(tree.inputs) - 1)
         /\ tree.inputs[n.input + 1].table = ownTable(n.trace)[1]

\* C30: in every Tree returned by New or NewSplit the Input of each Node
\* (the root and every Substitute inner node) is -1 if the node's trace
\* reads no table, and otherwise a valid index into Tree.Inputs whose table
\* is the table of the node's own leaf.
C30_NodeInputIsOwnSlot ==
    ret.f = "newTree" =>
        \A i \in 1..Len(ret.tree.nodes) : nodeInputRight(ret.tree, ret.tree.nodes[i])

(***************************************************************************)
(* Properties of UnpivotAtDistinct                                         *)
(***************************************************************************)
namesWritten == { d \in DOMAIN downRows : downRows[d] > 0 }

\* C27: over all the streams of one UnpivotAtDistinct (the downstream writes
\* succeeding), no field name is written downstream twice, only names met
\* in the input are written, and once every writeRows call has returned
\* each name met in the input has been written: exactly once in total.
C27_EachNameOnce ==
    /\ \A d \in DOMAIN downRows : downRows[d] <= 1
    /\ namesWritten \subseteq fieldsSeen
    /\ (\A t \in Threads : kern[t].pc = "idle") => namesWritten = fieldsSeen

\* two streams with different symbol tables have met a common name, all
\* calls have returned and two names are downstream
C27_Witness ==
    /\ \A t \in Threads : kern[t].pc = "idle"
    /\ \E t, u \in Threads :
          /\ t # u /\ kern[t].syms # kern[u].syms
          /\ \E k \in kern[t].buf, m \in kern[u].buf : kern[t].syms[k] = kern[u].syms[m]
    /\ Cardinality(namesWritten) = 2

(***************************************************************************)
(* Properties of indexSink.Close                                           *)
(***************************************************************************)
\* C28: however often and from however many goroutines indexSink.Close is
\* called, the index is signed and written to the store at most once and
\* the table-name row is emitted downstream at most once.
C28_CloseOnce ==
    /\ Len(idxSink.written) <= 1
    /\ idxSink.rows <= 1

====
